---------------------------- MODULE Spec2Model ----------------------------
(***************************************************************************)
(* d20: a dice-expression engine.  A Roller evaluates a dice AST into an   *)
(* expression tree, drawing every die through its RollContext.             *)
(*                                                                         *)
(* Expression nodes live in a heap (a sequence of records); a node is      *)
(* named by its index, which is its object identity.  The evaluator is     *)
(* deterministic in the values the random source returns, so the position  *)
(* of a running roll() is given by the values returned so far (tape):      *)
(* the state between two draws is the state the evaluator reaches on that  *)
(* tape when it calls the random source the next time.                     *)
(***************************************************************************)
EXTENDS Integers, Sequences, FiniteSets, TLC

VARIABLES
    ev,         \* the Roller's context and the running / last roll() call:
                \* see roll below
    base,       \* RollContext.rolls as roll() left it after its reset()
    dice_tree,  \* the AST handed to the running / last roll() call
    tape,       \* values random.randrange has returned in this call
    calls,      \* roll() calls started on this Roller
    prev,       \* how the previous call ended
    ast,        \* the last call made outside roll() on an AST or on the tree
                \* of a result: its name, its arguments and what it returned
    rollers,    \* RollContext.rolls of each Roller that threads call
    threads     \* each thread's roll() call: the Roller it is made on, its
                \* tree and its position in Dice.new and count_roll

vars == <<ev, base, dice_tree, tape, calls, prev, ast, rollers, threads>>

\* RollContext.rolls of the Roller's context
rolls == ev.rolls
\* the expression nodes built so far in this call
heap == ev.heap
\* the root Expression of the RollResult
dice_expr == ev.val
\* size of the die whose draw is awaited
pending == ev.pending
\* history: the operators applied in this call, each with its target and
\* the heap before and after it
oplog == ev.log
\* "idle", "drawing" (in random.randrange), "returned" or the exception raised
pc == CASE ev.status = "blocked" -> "drawing"
        [] ev.status = "ok" -> "returned"
        [] OTHER -> ev.status

----------------------------------------------------------------------------
(* Bounds of the model *)

\* the threads that call roll(), and the Rollers they call it on
Threads == 1..2
Rollers == 1..2

\* RollContext(max_rolls): the budget given to the context (default 1000)
max_rolls == 4
\* largest number of dice of one dice term
MaxNum == 2
\* largest die size of the generated dice terms
MaxSize == 2
\* largest selector number of the generated operators
MaxSel == 2
\* roll() calls made on the one Roller
MaxCalls == 2
\* longest set of literals
MaxLen == 3
\* most operators written after one set or dice term
MaxOps == 3
\* parse() calls made on one Roller
MaxParses == 3

\* sys.float_info.max, the largest quotient that l / r can return (about
\* 1.8 * 10^308 in the build, scaled to the integers of the model)
float_max == 100
\* longest tape: a call within its budget draws at most max_rolls values
MaxTape == max_rolls + 2

(* Python values with no integer / string counterpart *)
None == "None"
\* the size of a d%: diceast.Dice keeps the string '%'
Percent == -1
\* max_targets=None
NoLimit == -1

Last(s) == s[Len(s)]
Min(a, b) == IF a < b THEN a ELSE b

RECURSIVE SumSeq(_)
SumSeq(s) == IF s = <<>> THEN 0 ELSE Head(s) + SumSeq(Tail(s))

\* a Python set iterated.  The order depends on the objects' hashes; the
\* members are taken in the order of their creation: the loops over a
\* selection draw a fresh value for every member, so another order gives
\* the same trees up to the order in which the new nodes were created
RECURSIVE SetToSeq(_)
SetToSeq(S) ==
    IF S = {} THEN <<>>
    ELSE LET x == CHOOSE y \in S : \A z \in S : y <= z
         IN <<x>> \o SetToSeq(S \ {x})

\* seq[:n] for n >= 0
Slice(seq, n) == SubSeq(seq, 1, Min(n, Len(seq)))

Range(s) == {s[i] : i \in 1..Len(s)}

\* the value v of a statement, handed to the statements F after it
Then(v, F(_)) == CHOOSE y \in {F(x) : x \in {v}} : TRUE

----------------------------------------------------------------------------
(* diceast: the AST *)

IMMEDIATE == {"mi", "ma"}

ast_SetSelector(cat, num) == [type |-> "ast.SetSelector", cat |-> cat, num |-> num]

ast_SetOperator(op, sels) == [type |-> "ast.SetOperator", op |-> op, sels |-> sels]

ast_Literal(value) == [type |-> "ast.Literal", value |-> value, is_float |-> FALSE]

\* Literal(value) of a DECIMAL token: value is the float digits / 10^scale
ast_Literal_float(value) == [type |-> "ast.Literal", value |-> value, is_float |-> TRUE]

ast_UnOp(op, value) == [type |-> "ast.UnOp", op |-> op, value |-> value]

ast_BinOp(left, op, right) ==
    [type |-> "ast.BinOp", op |-> op, left |-> left, right |-> right]

ast_Parenthetical(value) == [type |-> "ast.Parenthetical", value |-> value]

ast_AnnotatedNumber(value, annotations) ==
    [type |-> "ast.AnnotatedNumber", value |-> value, annotations |-> annotations]

ast_NumberSet(values) == [type |-> "ast.NumberSet", values |-> values]

ast_Dice(num, size) == [type |-> "ast.Dice", num |-> num, size |-> size]

ast_Expression(roll, comment) ==
    [type |-> "ast.Expression", roll |-> roll, comment |-> comment]

RECURSIVE simplify_loop_immediates_merged(_, _)
\* a simplification that merges mi and ma like the other operators
simplify_loop_immediates_merged(operations, new_operations) ==
    IF operations = <<>> THEN new_operations
    ELSE LET operation == Head(operations)
             n == Len(new_operations)
         IN IF new_operations # <<>> /\ operation.op = new_operations[n].op
            THEN simplify_loop_immediates_merged(Tail(operations),
                    [new_operations EXCEPT ![n].sels = @ \o operation.sels])
            ELSE simplify_loop_immediates_merged(Tail(operations),
                    Append(new_operations, operation))

\* OperatedSet._simplify_operations: k1k2k3 becomes k(1,2,3)
RECURSIVE simplify_loop(_, _)
simplify_loop(operations, new_operations) ==
    IF operations = <<>> THEN new_operations
    ELSE LET operation == Head(operations)
             n == Len(new_operations)
         IN IF operation.op \in IMMEDIATE \/ new_operations = <<>>
            THEN simplify_loop(Tail(operations), Append(new_operations, operation))
            ELSE IF operation.op = new_operations[n].op
                 THEN simplify_loop(Tail(operations),
                        [new_operations EXCEPT ![n].sels = @ \o operation.sels])
                 ELSE simplify_loop(Tail(operations),
                        Append(new_operations, operation))

_simplify_operations(operations) == simplify_loop(operations, <<>>)

ast_OperatedSet(the_set, operations) ==
    [type |-> "ast.OperatedSet", value |-> the_set,
     operations |-> _simplify_operations(operations)]

ast_OperatedDice(the_dice, operations) ==
    [type |-> "ast.OperatedDice", value |-> the_dice,
     operations |-> _simplify_operations(operations)]

----------------------------------------------------------------------------
(* diceast: the objects of an AST.  A node holds the references of its     *)
(* children; the list of operations of an OperatedSet is an object of its  *)
(* own, which copy.copy of the node shares; the list of values of a       *)
(* NumberSet is copied by NumberSet.__copy__ and is kept in the node.      *)

\* the state of a computation on the objects: the objects, the value of the
\* last statement and "ok" or the exception raised
Objects(h) == [heap |-> h, val |-> 0, status |-> "ok"]

returns(A, v) == [A EXCEPT !.val = v]

\* a new object
allocate(A, object) == [A EXCEPT !.heap = Append(@, object), !.val = Len(A.heap) + 1]

RECURSIVE ast_load(_, _)
RECURSIVE ast_load_values(_, _, _)
\* the nodes of the tree t as objects, created children first
ast_load(A, t) ==
    CASE t.type \in {"ast.Literal", "ast.Dice"} -> allocate(A, t)
      [] t.type = "ast.Expression" ->
            Then(ast_load(A, t.roll),
                 LAMBDA B : allocate(B, [t EXCEPT !.roll = B.val]))
      [] t.type \in {"ast.UnOp", "ast.Parenthetical", "ast.AnnotatedNumber"} ->
            Then(ast_load(A, t.value),
                 LAMBDA B : allocate(B, [t EXCEPT !.value = B.val]))
      [] t.type = "ast.BinOp" ->
            Then(ast_load(A, t.left),
                 LAMBDA B : Then(ast_load(B, t.right),
                                 LAMBDA C : allocate(C, [t EXCEPT !.left = B.val,
                                                                  !.right = C.val])))
      [] t.type \in {"ast.OperatedSet", "ast.OperatedDice"} ->
            Then(ast_load(A, t.value),
                 LAMBDA B : Then(allocate(B, [type |-> "list", items |-> t.operations]),
                                 LAMBDA C : allocate(C, [t EXCEPT !.value = B.val,
                                                                  !.operations = C.val])))
      [] t.type = "ast.NumberSet" -> ast_load_values(A, t.values, <<>>)

ast_load_values(A, values, refs) ==
    IF values = <<>> THEN allocate(A, [type |-> "ast.NumberSet", values |-> refs])
    ELSE Then(ast_load(A, Head(values)),
              LAMBDA B : ast_load_values(B, Tail(values), Append(refs, B.val)))

RECURSIVE ast_tree(_, _)
\* the tree that the node n of the objects h is the root of
ast_tree(h, n) ==
    CASE h[n].type \in {"ast.Literal", "ast.Dice"} -> h[n]
      [] h[n].type = "ast.Expression" -> [h[n] EXCEPT !.roll = ast_tree(h, @)]
      [] h[n].type \in {"ast.UnOp", "ast.Parenthetical", "ast.AnnotatedNumber"} ->
            [h[n] EXCEPT !.value = ast_tree(h, @)]
      [] h[n].type = "ast.BinOp" ->
            [h[n] EXCEPT !.left = ast_tree(h, @), !.right = ast_tree(h, @)]
      [] h[n].type \in {"ast.OperatedSet", "ast.OperatedDice"} ->
            [h[n] EXCEPT !.value = ast_tree(h, @), !.operations = h[@].items]
      [] h[n].type = "ast.NumberSet" ->
            [h[n] EXCEPT !.values = [i \in 1..Len(@) |-> ast_tree(h, @[i])]]

\* Node.children and its overrides
ast_children(h, n) ==
    CASE h[n].type = "ast.Expression" -> <<h[n].roll>>
      [] h[n].type \in {"ast.UnOp", "ast.Parenthetical", "ast.AnnotatedNumber",
                        "ast.OperatedSet", "ast.OperatedDice"} -> <<h[n].value>>
      [] h[n].type = "ast.BinOp" -> <<h[n].left, h[n].right>>
      [] h[n].type = "ast.NumberSet" -> h[n].values
      [] OTHER -> <<>>

\* ChildMixin.set_child(index, value) and its overrides; index counts from 1
ast_set_child(A, n, index, value) ==
    IF index > Len(ast_children(A.heap, n)) \/ index < 1
    THEN [A EXCEPT !.status = "IndexError"]
    ELSE CASE A.heap[n].type = "ast.Expression" -> [A EXCEPT !.heap[n].roll = value]
           [] A.heap[n].type = "ast.BinOp" ->
                 IF ast_children(A.heap, n)[index] = A.heap[n].left
                 THEN [A EXCEPT !.heap[n].left = value]
                 ELSE [A EXCEPT !.heap[n].right = value]
           [] A.heap[n].type = "ast.NumberSet" ->
                 [A EXCEPT !.heap[n].values[index] = value]
           [] OTHER -> [A EXCEPT !.heap[n].value = value]

\* parent.left = value: the slot of a BinOp, ChildMixin.left of the others
ast_set_left(A, n, value) ==
    IF A.heap[n].type = "ast.BinOp" THEN [A EXCEPT !.heap[n].left = value]
    ELSE ast_set_child(A, n, 1, value)

\* copy.copy(node): a new node with the fields of the old one
ast_copy(A, n) == allocate(A, A.heap[n])

RECURSIVE join(_, _)
\* sep.join(strs)
join(sep, strs) ==
    IF strs = <<>> THEN ""
    ELSE IF Len(strs) = 1 THEN strs[1]
    ELSE strs[1] \o sep \o join(sep, Tail(strs))

\* SetSelector.__str__
ast_SetSelector_str(sel) ==
    IF sel.cat # None THEN sel.cat \o ToString(sel.num) ELSE ToString(sel.num)

\* SetOperator.__str__
ast_SetOperator_str(operator) ==
    join("", [i \in 1..Len(operator.sels) |->
                operator.op \o ast_SetSelector_str(operator.sels[i])])

RECURSIVE zeros(_)
zeros(n) == IF n <= 0 THEN "" ELSE "0" \o zeros(n - 1)

\* str(value) of a float: float.__repr__, the shortest digits that give the
\* float back, with an exponent when the decimal point is 4 or more places
\* left of the digits or more than 16 places right of their start
float_str(value) ==
    LET the_digits == ToString(value.digits)
        decpt == Len(the_digits) - value.scale
        exponent == decpt - 1
    IN  IF value.digits = 0 THEN "0.0"
        ELSE IF decpt <= -4 \/ decpt > 16
        THEN SubSeq(the_digits, 1, 1)
                \o (IF Len(the_digits) > 1
                    THEN "." \o SubSeq(the_digits, 2, Len(the_digits)) ELSE "")
                \o "e" \o (IF exponent < 0 THEN "-" ELSE "+")
                \o (IF exponent > -10 /\ exponent < 10 THEN "0" ELSE "")
                \o ToString(IF exponent < 0 THEN 0 - exponent ELSE exponent)
        ELSE IF decpt <= 0 THEN "0." \o zeros(0 - decpt) \o the_digits
        ELSE IF value.scale = 0 THEN the_digits \o ".0"
        ELSE SubSeq(the_digits, 1, decpt) \o "." \o SubSeq(the_digits, decpt + 1, Len(the_digits))

RECURSIVE ast_str(_, _)
\* Node.__str__ and its overrides
ast_str(h, n) ==
    CASE h[n].type = "ast.Expression" ->
            IF h[n].comment # None THEN ast_str(h, h[n].roll) \o " " \o h[n].comment
            ELSE ast_str(h, h[n].roll)
      [] h[n].type = "ast.AnnotatedNumber" ->
            ast_str(h, h[n].value) \o " " \o join("", h[n].annotations)
      [] h[n].type = "ast.Literal" ->
            IF h[n].is_float THEN float_str(h[n].value) ELSE ToString(h[n].value)
      [] h[n].type = "ast.Parenthetical" -> "(" \o ast_str(h, h[n].value) \o ")"
      [] h[n].type = "ast.UnOp" -> h[n].op \o ast_str(h, h[n].value)
      [] h[n].type = "ast.BinOp" ->
            ast_str(h, h[n].left) \o " " \o h[n].op \o " " \o ast_str(h, h[n].right)
      [] h[n].type \in {"ast.OperatedSet", "ast.OperatedDice"} ->
            ast_str(h, h[n].value)
                \o join("", [i \in 1..Len(h[h[n].operations].items) |->
                                ast_SetOperator_str(h[h[n].operations].items[i])])
      [] h[n].type = "ast.NumberSet" ->
            IF Len(h[n].values) = 1 THEN "(" \o ast_str(h, h[n].values[1]) \o ",)"
            ELSE "(" \o join(", ", [i \in 1..Len(h[n].values) |->
                                        ast_str(h, h[n].values[i])]) \o ")"
      [] h[n].type = "ast.Dice" ->
            ToString(h[n].num) \o "d"
                \o (IF h[n].size = Percent THEN "%" ELSE ToString(h[n].size))

\* AdvType
AdvType_NONE == 0
AdvType_ADV == 1
AdvType_DIS == -1

RECURSIVE adv_loop(_, _, _)
\* ast_adv_copy: while child.children: the copies down the chain of first
\* children; the value is <<parent, child>>
adv_loop(A, parent, child) ==
    IF ast_children(A.heap, child) = <<>> THEN returns(A, <<parent, child>>)
    ELSE Then(ast_copy(A, ast_children(A.heap, child)[1]),
              LAMBDA B : Then(ast_set_left(B, child, B.val),
                              LAMBDA C : adv_loop(C, child, B.val)))

\* ast_adv_copy from "make the child 2d20" on
adv_keep(A, root, parent, child, advtype) ==
    LET high_or_low == ast_SetSelector(IF advtype = 1 THEN "h" ELSE "l", 1)
        kh1 == ast_SetOperator("k", <<high_or_low>>)
    IN  returns([A EXCEPT !.heap[child].num = 2,
                          !.heap[A.heap[parent].operations].items = <<kh1>> \o @],
                root)

\* an ast_adv_copy that inserts into the list of operations that the copy of
\* the OperatedDice shares with the original
ast_adv_copy_sharing(h, the_ast, advtype) ==
    Then(ast_copy(Objects(h), the_ast), LAMBDA R :
        IF advtype = AdvType_NONE THEN R
        ELSE Then(adv_loop(R, R.val, R.val), LAMBDA W :
            LET parent == W.val[1]
                child == W.val[2]
            IN  IF W.heap[child].type # "ast.Dice" THEN returns(W, R.val)
                ELSE IF ~ (W.heap[child].num = 1 /\ W.heap[child].size = 20)
                THEN returns(W, R.val)
                ELSE IF W.heap[parent].type # "ast.OperatedDice"
                THEN Then(allocate(W, [type |-> "list", items |-> <<>>]), LAMBDA L :
                     Then(allocate(L, [type |-> "ast.OperatedDice", value |-> child,
                                       operations |-> L.val]), LAMBDA P :
                     Then(ast_set_left(P, parent, P.val), LAMBDA Q :
                          IF Q.status # "ok" THEN Q
                          ELSE adv_keep(Q, R.val, P.val, child, advtype))))
                ELSE adv_keep(W, R.val, parent, child, advtype)))

\* utils.ast_adv_copy(ast, advtype)
ast_adv_copy(h, the_ast, advtype) ==
    Then(ast_copy(Objects(h), the_ast), LAMBDA R :
        IF advtype = AdvType_NONE THEN R
        ELSE Then(adv_loop(R, R.val, R.val), LAMBDA W :
            LET parent == W.val[1]
                child == W.val[2]
            IN  IF W.heap[child].type # "ast.Dice" THEN returns(W, R.val)
                ELSE IF ~ (W.heap[child].num = 1 /\ W.heap[child].size = 20)
                THEN returns(W, R.val)
                ELSE IF W.heap[parent].type # "ast.OperatedDice"
                THEN Then(allocate(W, [type |-> "list", items |-> <<>>]), LAMBDA L :
                     Then(allocate(L, [type |-> "ast.OperatedDice", value |-> child,
                                       operations |-> L.val]), LAMBDA P :
                     Then(ast_set_left(P, parent, P.val), LAMBDA Q :
                          IF Q.status # "ok" THEN Q
                          ELSE adv_keep(Q, R.val, P.val, child, advtype))))
                ELSE Then(allocate(W, W.heap[W.heap[parent].operations]), LAMBDA L :
                          adv_keep([L EXCEPT !.heap[parent].operations = L.val],
                                   R.val, parent, child, advtype))))

\* the functions given to tree_map: the mappers of the tests, which assign to
\* a field of the node they are handed or return a new node, and one that
\* inserts into the list of operations of its node, as ast_adv_copy does
Mappers == {"identity", "double_num", "new_dice", "insert_kh1"}

\* func(node)
mapper(A, func, node) ==
    CASE func = "double_num" /\ A.heap[node].type = "ast.Dice" ->
            returns([A EXCEPT !.heap[node].num = @ * 2], node)
      [] func = "new_dice" /\ A.heap[node].type = "ast.Dice" ->
            allocate(A, ast_Dice(A.heap[node].num * 2, A.heap[node].size))
      [] func = "insert_kh1" /\ A.heap[node].type \in {"ast.OperatedSet", "ast.OperatedDice"} ->
            returns([A EXCEPT !.heap[A.heap[node].operations].items =
                        <<ast_SetOperator("k", <<ast_SetSelector("h", 1)>>)>> \o @],
                    node)
      [] OTHER -> returns(A, node)

RECURSIVE tree_map_in_place(_, _, _)
RECURSIVE tree_map_in_place_loop(_, _, _, _, _)
\* a tree_map that maps the children of the node itself, without copy.copy
tree_map_in_place(A, func, node) ==
    Then(tree_map_in_place_loop(A, func, node, ast_children(A.heap, node), 1),
         LAMBDA M : mapper(M, func, node))

tree_map_in_place_loop(A, func, copied, the_children, i) ==
    IF i > Len(the_children) THEN A
    ELSE Then(tree_map_in_place(A, func, the_children[i]), LAMBDA B :
         Then(ast_set_child(B, copied, i, B.val), LAMBDA C :
              tree_map_in_place_loop(C, func, copied, the_children, i + 1)))

RECURSIVE tree_map(_, _, _)
RECURSIVE tree_map_loop(_, _, _, _, _)
\* utils.tree_map(func, node)
tree_map(A, func, node) ==
    Then(ast_copy(A, node), LAMBDA K :
    Then(tree_map_loop(K, func, K.val, ast_children(K.heap, K.val), 1),
         LAMBDA M : mapper(M, func, K.val)))

\* for i, child in enumerate(copied.children)
tree_map_loop(A, func, copied, the_children, i) ==
    IF i > Len(the_children) THEN A
    ELSE Then(tree_map(A, func, the_children[i]), LAMBDA B :
         Then(ast_set_child(B, copied, i, B.val), LAMBDA C :
              tree_map_loop(C, func, copied, the_children, i + 1)))

----------------------------------------------------------------------------
(* expression: the nodes of the evaluated tree *)

Literal(value) ==
    [type |-> "Literal", kept |-> TRUE, annotation |-> None,
     values |-> <<value>>, exploded |-> FALSE]

UnOp(op, value) ==
    [type |-> "UnOp", kept |-> TRUE, annotation |-> None, op |-> op, value |-> value]

BinOp(left, op, right) ==
    [type |-> "BinOp", kept |-> TRUE, annotation |-> None,
     op |-> op, left |-> left, right |-> right]

Parenthetical(value) ==
    [type |-> "Parenthetical", kept |-> TRUE, annotation |-> None,
     value |-> value, operations |-> <<>>]

Set(values) ==
    [type |-> "Set", kept |-> TRUE, annotation |-> None,
     values |-> values, operations |-> <<>>]

Dice(num, size, values) ==
    [type |-> "Dice", kept |-> TRUE, annotation |-> None,
     num |-> num, size |-> size, values |-> values, operations |-> <<>>]

Die(size, values) ==
    [type |-> "Die", kept |-> TRUE, annotation |-> None,
     size |-> size, values |-> values]

Expression(roll, comment) ==
    [type |-> "Expression", kept |-> TRUE, annotation |-> None,
     roll |-> roll, comment |-> comment]

SetSelector(cat, num) == [cat |-> cat, num |-> num]

SetOperator(op, sels) == [op |-> op, sels |-> sels]

SetSelector_from_ast(node) == SetSelector(node.cat, node.num)

SetOperator_from_ast(node) ==
    SetOperator(node.op, [i \in 1..Len(node.sels) |-> SetSelector_from_ast(node.sels[i])])

\* UnOp.UNARY_OPS
UNARY_OPS(op, v) == IF op = "-" THEN 0 - v ELSE v

\* BinOp.BINARY_OPS.  l / r is Python's true division: the model has the
\* quotients that are integers.  l // r and l % r take the floor
BINARY_OPS(op, l, r) ==
    CASE op = "+" -> l + r
      [] op = "-" -> l - r
      [] op = "*" -> l * r
      [] op = "/" /\ r > 0 /\ l % r = 0 -> l \div r
      [] op = "//" /\ r > 0 -> l \div r
      [] op = "%" /\ r > 0 -> l % r
      [] op = "<" -> IF l < r THEN 1 ELSE 0
      [] op = ">" -> IF l > r THEN 1 ELSE 0
      [] op = "==" -> IF l = r THEN 1 ELSE 0
      [] op = ">=" -> IF l >= r THEN 1 ELSE 0
      [] op = "<=" -> IF l <= r THEN 1 ELSE 0
      [] op = "!=" -> IF l # r THEN 1 ELSE 0

RECURSIVE set(_, _)
\* Number.set of node n in heap h: the children exposed to operators
set(h, n) ==
    CASE h[n].type \in {"Literal", "UnOp", "BinOp"} -> <<n>>
      [] h[n].type \in {"Set", "Dice"} -> h[n].values
      [] h[n].type = "Die" -> <<Last(h[n].values)>>
      [] h[n].type = "Parenthetical" -> set(h, h[n].value)
      [] h[n].type = "Expression" -> set(h, h[n].roll)

\* Number.keptset
keptset(h, n) == SelectSeq(set(h, n), LAMBDA c : h[c].kept)

RECURSIVE number(_, _)
RECURSIVE total(_, _)
\* Number.number and its overrides
number(h, n) ==
    CASE h[n].type = "Literal" -> Last(h[n].values)
      [] h[n].type = "UnOp" -> UNARY_OPS(h[n].op, total(h, h[n].value))
      [] h[n].type = "BinOp" ->
            BINARY_OPS(h[n].op, total(h, h[n].left), total(h, h[n].right))
      [] h[n].type = "Die" -> total(h, Last(h[n].values))
      [] h[n].type = "Expression" -> number(h, h[n].roll)
      [] OTHER ->
            Then(keptset(h, n),
                 LAMBDA ks : SumSeq([i \in 1..Len(ks) |-> number(h, ks[i])]))

\* Number.total, Parenthetical.total
total(h, n) ==
    IF h[n].type = "Parenthetical"
    THEN IF h[n].kept THEN total(h, h[n].value) ELSE 0
    ELSE IF h[n].kept THEN number(h, n) ELSE 0

\* the operators whose lambda raises ZeroDivisionError on a right operand 0
DIVISIONS == {"/", "//", "%"}

\* the exception that BINARY_OPS[op](l, r) raises, None when it returns: by
\* 0 no number is divided, and the quotient of two integers that is above
\* float_max is no float
lambda_exc(op, l, r) ==
    CASE op \in DIVISIONS /\ r = 0 -> "ZeroDivisionError"
      [] op = "/" /\ r > 0 /\ l \div r > float_max -> "OverflowError"
      [] OTHER -> None

\* a BinOp.number without the try: what the lambda raises goes on
BinOp_uncaught(exc) == exc

\* BinOp.number: except ZeroDivisionError: raise RollValueError
BinOp_except(exc) == IF exc = "ZeroDivisionError" THEN "RollValueError" ELSE exc

\* the first of the exceptions excs, None when there is none
FirstExc(excs) ==
    IF \A i \in 1..Len(excs) : excs[i] = None THEN None
    ELSE excs[CHOOSE i \in 1..Len(excs) :
                 excs[i] # None /\ \A j \in 1..(i - 1) : excs[j] = None]

RECURSIVE number_exc(_, _)
RECURSIVE total_exc(_, _)
\* the exception that reading n.number raises, None when it returns; number
\* above is the value it returns then
number_exc(h, n) ==
    CASE h[n].type = "Literal" -> None
      [] h[n].type = "UnOp" -> total_exc(h, h[n].value)
      [] h[n].type = "BinOp" ->
            BinOp_except(
                FirstExc(<<total_exc(h, h[n].left), total_exc(h, h[n].right),
                           IF /\ total_exc(h, h[n].left) = None
                              /\ total_exc(h, h[n].right) = None
                           THEN lambda_exc(h[n].op, total(h, h[n].left),
                                           total(h, h[n].right))
                           ELSE None>>))
      [] h[n].type = "Die" -> total_exc(h, Last(h[n].values))
      [] h[n].type = "Expression" -> number_exc(h, h[n].roll)
      [] OTHER ->
            Then(keptset(h, n),
                 LAMBDA ks : FirstExc([i \in 1..Len(ks) |-> number_exc(h, ks[i])]))

\* the exception that reading n.total raises, None when it returns
total_exc(h, n) ==
    IF h[n].type = "Parenthetical"
    THEN IF h[n].kept THEN total_exc(h, h[n].value) ELSE None
    ELSE IF h[n].kept THEN number_exc(h, n) ELSE None

----------------------------------------------------------------------------
(* SetSelector *)

\* sorted(seq, key=..., reverse=reverse) on the keys key[i] of seq[i]:
\* stable, also when reversed
sorted(seq, key, reverse) ==
    LET before(i, j) ==
            \/ (IF reverse THEN key[i] > key[j] ELSE key[i] < key[j])
            \/ (key[i] = key[j] /\ i < j)
        rank(i) == 1 + Cardinality({j \in 1..Len(seq) : before(j, i)})
    IN [k \in 1..Len(seq) |-> seq[CHOOSE i \in 1..Len(seq) : rank(i) = k]]

\* the key of the selectors: lambda n: n.total
totals(h, seq) == [i \in 1..Len(seq) |-> total(h, seq[i])]

sorted_keptset(h, target, reverse) ==
    Then(keptset(h, target),
         LAMBDA ks : Then(totals(h, ks), LAMBDA key : sorted(ks, key, reverse)))

\* a highestn that reverses the ascending order: the later of two equal
\* elements comes first
highestn_reversed(h, sel, target) ==
    Then(sorted_keptset(h, target, FALSE),
         LAMBDA asc : Slice([i \in 1..Len(asc) |-> asc[Len(asc) + 1 - i]], sel.num))

lowestn(h, sel, target) == Slice(sorted_keptset(h, target, FALSE), sel.num)

highestn(h, sel, target) == Slice(sorted_keptset(h, target, TRUE), sel.num)

lessthan(h, sel, target) ==
    SelectSeq(keptset(h, target), LAMBDA n : total(h, n) < sel.num)

morethan(h, sel, target) ==
    SelectSeq(keptset(h, target), LAMBDA n : total(h, n) > sel.num)

literal(h, sel, target) ==
    SelectSeq(keptset(h, target), LAMBDA n : total(h, n) = sel.num)

\* SetSelector.select(target, max_targets): a set of nodes
SetSelector_select(h, sel, target, max_targets) ==
    Then(CASE sel.cat = "l" -> lowestn(h, sel, target)
           [] sel.cat = "h" -> highestn(h, sel, target)
           [] sel.cat = "<" -> lessthan(h, sel, target)
           [] sel.cat = ">" -> morethan(h, sel, target)
           [] sel.cat = None -> literal(h, sel, target),
         LAMBDA selected :
            Range(IF max_targets # NoLimit THEN Slice(selected, max_targets)
                                           ELSE selected))

----------------------------------------------------------------------------
(* SetOperator: selection, keep and drop *)

RECURSIVE select_loop(_, _, _, _, _)
select_loop(h, sels, target, max_targets, out) ==
    IF sels = <<>> THEN out
    ELSE LET batch_max == IF max_targets # NoLimit
                          THEN max_targets - Cardinality(out) ELSE NoLimit
         IN IF max_targets # NoLimit /\ batch_max = 0 THEN out
            ELSE Then(out \cup SetSelector_select(h, Head(sels), target, batch_max),
                      LAMBDA o : select_loop(h, Tail(sels), target, max_targets, o))

\* SetOperator.select(target, max_targets)
select(h, self, target, max_targets) ==
    select_loop(h, self.sels, target, max_targets, {})

\* the exception that select(target) raises, None when it returns: the
\* first selector reads the total of every kept element
select_exc(h, self, target) ==
    IF self.sels = <<>> THEN None
    ELSE Then(keptset(h, target),
              LAMBDA ks : FirstExc([i \in 1..Len(ks) |-> total_exc(h, ks[i])]))

\* Number.drop
Number_drop(h, n) == [h EXCEPT ![n].kept = FALSE]

RECURSIVE drop_loop(_, _)
drop_loop(h, todo) ==
    IF todo = <<>> THEN h
    ELSE Then(Number_drop(h, Head(todo)), LAMBDA d : drop_loop(d, Tail(todo)))

\* SetOperator.drop
drop(h, self, target) == drop_loop(h, SetToSeq(select(h, self, target, NoLimit)))

\* a keep that drops what is selected
keep_selected_dropped(h, self, target) == drop(h, self, target)

RECURSIVE keep_loop(_, _, _, _)
keep_loop(h, self, target, todo) ==
    IF todo = <<>> THEN h
    ELSE IF Head(todo) \notin select(h, self, target, NoLimit)
         THEN Then(Number_drop(h, Head(todo)),
                   LAMBDA d : keep_loop(d, self, target, Tail(todo)))
         ELSE keep_loop(h, self, target, Tail(todo))

\* SetOperator.keep: the selection is evaluated again for every value
keep(h, self, target) == keep_loop(h, self, target, keptset(h, target))


----------------------------------------------------------------------------
(* The evaluator's state while roll() runs: the heap, the context's        *)
(* counter, the values the random source will still return, the value of   *)
(* the last evaluated node (val) and how far it got (status): "ok", the    *)
(* exception being raised, or "blocked" in random.randrange.  History      *)
(* fields record what was done: explosions and rerolls, the dice explode() *)
(* and reroll() were called on, and log, the operators applied with the    *)
(* heap before and after each.                                             *)
(* Then(v, F) hands the result v of a statement to the statements F after  *)
(* it.                                                                     *)

ok(S) == S.status = "ok"

raise(S, exc) == [S EXCEPT !.status = exc]

\* a node is constructed: val names it
new(S, node) == [S EXCEPT !.heap = Append(@, node), !.val = Len(S.heap) + 1]

\* a reset that leaves the counter as it is
reset_skipped(r) == r

\* RollContext.reset
reset(r) == 0

\* a count_roll that already raises when the budget is reached
count_roll_early(S) ==
    IF S.rolls + 1 >= max_rolls
    THEN [S EXCEPT !.rolls = @ + 1, !.status = "TooManyRolls"]
    ELSE [S EXCEPT !.rolls = @ + 1]

\* a count_roll that counts and never raises
count_roll_unchecked(S) == [S EXCEPT !.rolls = @ + 1]

\* RollContext.count_roll(n=1)
count_roll(S) ==
    IF S.rolls + 1 > max_rolls
    THEN [S EXCEPT !.rolls = @ + 1, !.status = "TooManyRolls"]
    ELSE [S EXCEPT !.rolls = @ + 1]

\* the values random.randrange returns for a die of this size
randrange(size) == IF size = Percent THEN {10 * i : i \in 0..9} ELSE 0..(size - 1)

\* an _add_roll that keeps randrange(size) as the value, without the + 1
_add_roll_zero_based(S, die) ==
    LET size == S.heap[die].size
        append(L) == [L EXCEPT !.heap[die].values = Append(@, L.val), !.val = die]
        draw(C) ==
            IF ~ok(C) THEN C
            ELSE IF C.tape = <<>>
                 THEN [C EXCEPT !.status = "blocked", !.pending = size]
                 ELSE Then(new([C EXCEPT !.tape = Tail(@)], Literal(Head(C.tape))),
                           append)
    IN IF size # Percent /\ size < 1 THEN raise(S, "RollValueError")
       ELSE Then(count_roll(S), draw)

\* an _add_roll that counts the roll before it looks at the size
_add_roll_counted_first(S, die) ==
    LET size == S.heap[die].size
        append(L) == [L EXCEPT !.heap[die].values = Append(@, L.val), !.val = die]
        draw(C) ==
            IF ~ok(C) THEN C
            ELSE IF size # Percent /\ size < 1 THEN raise(C, "RollValueError")
            ELSE IF C.tape = <<>>
                 THEN [C EXCEPT !.status = "blocked", !.pending = size]
                 ELSE Then(new([C EXCEPT !.tape = Tail(@)],
                               Literal(IF size = Percent THEN Head(C.tape)
                                                         ELSE Head(C.tape) + 1)),
                           append)
    IN Then(count_roll(S), draw)

\* Die._add_roll (the Roller's dice always carry its context)
_add_roll(S, die) ==
    LET size == S.heap[die].size
        append(L) == [L EXCEPT !.heap[die].values = Append(@, L.val), !.val = die]
        draw(C) ==
            IF ~ok(C) THEN C
            ELSE IF C.tape = <<>>
                 THEN [C EXCEPT !.status = "blocked", !.pending = size]
                 ELSE Then(new([C EXCEPT !.tape = Tail(@)],
                               Literal(IF size = Percent THEN Head(C.tape)
                                                         ELSE Head(C.tape) + 1)),
                           append)
    IN IF size # Percent /\ size < 1 THEN raise(S, "RollValueError")
       ELSE Then(count_roll(S), draw)

\* Die.new
Die_new(S, size) ==
    Then(new(S, Die(size, <<>>)), LAMBDA inst : _add_roll(inst, inst.val))

\* a reroll that leaves the value it replaces kept
Die_reroll_keeping(S, die) ==
    Then([S EXCEPT !.rerolls = Append(@, die)], LAMBDA D : _add_roll(D, die))

\* Die.reroll
Die_reroll(S, die) ==
    Then(IF S.heap[die].values # <<>>
         THEN [S EXCEPT !.heap = Number_drop(@, Last(S.heap[die].values)),
                        !.rerolls = Append(@, die)]
         ELSE [S EXCEPT !.rerolls = Append(@, die)],
         LAMBDA D : _add_roll(D, die))

\* Die.explode, Literal.explode
Die_explode(S, die) ==
    IF S.heap[die].values # <<>>
    THEN [S EXCEPT !.heap[Last(S.heap[die].values)].exploded = TRUE,
                   !.explosions = Append(@, die)]
    ELSE S

RECURSIVE Dice_new_loop(_, _, _, _)
Dice_new_loop(S, num, size, values) ==
    IF ~ok(S) THEN S
    ELSE IF Len(values) >= num THEN new(S, Dice(num, size, values))
    ELSE Then(Die_new(S, size),
              LAMBDA D : Dice_new_loop(D, num, size, Append(values, D.val)))

\* Dice.new
Dice_new(S, num, size) == Dice_new_loop(S, num, size, <<>>)

\* Dice.roll_another
roll_another(S, target) ==
    IF ~ok(S) THEN S
    ELSE Then(Die_new(S, S.heap[target].size),
              LAMBDA D : IF ~ok(D) THEN D
                         ELSE [D EXCEPT !.heap[target].values = Append(@, D.val),
                                        !.val = target])

----------------------------------------------------------------------------
(* SetOperator: the dice operators *)

\* the classes of src/d20/expression.py that define the method or attribute
hasattr(h, n, name) ==
    CASE name = "reroll" -> h[n].type = "Die"
      [] name = "force_value" -> h[n].type = "Die"
      [] name = "explode" -> h[n].type \in {"Die", "Literal"}
      [] name = "roll_another" -> h[n].type = "Dice"
      [] name = "operations" -> h[n].type \in {"Set", "Dice", "Parenthetical"}

RECURSIVE reroll_each(_, _)
\* for die in to_reroll: die.reroll()
reroll_each(S, todo) ==
    IF ~ok(S) \/ todo = <<>> THEN S
    ELSE IF ~hasattr(S.heap, Head(todo), "reroll") THEN raise(S, "AttributeError")
    ELSE Then(Die_reroll(S, Head(todo)), LAMBDA D : reroll_each(D, Tail(todo)))

\* a reroll that makes one pass and does not select again
reroll_single_pass(S, self, target) ==
    Then(select(S.heap, self, target, NoLimit),
         LAMBDA to_reroll : reroll_each(S, SetToSeq(to_reroll)))

RECURSIVE reroll(_, _, _)
\* SetOperator.reroll (rr)
reroll(S, self, target) ==
    IF ~ok(S) THEN S
    ELSE Then(select(S.heap, self, target, NoLimit),
              LAMBDA to_reroll :
                 IF to_reroll = {} THEN S
                 ELSE Then(reroll_each(S, SetToSeq(to_reroll)),
                           LAMBDA R : reroll(R, self, target)))

\* a reroll_once that goes on for as long as a die is selected
reroll_once_repeated(S, self, target) == reroll(S, self, target)

\* SetOperator.reroll_once (ro)
reroll_once(S, self, target) ==
    Then(select(S.heap, self, target, NoLimit),
         LAMBDA to_reroll : reroll_each(S, SetToSeq(to_reroll)))

RECURSIVE explode_each(_, _, _)
\* for die in to_explode: die.explode(); target.roll_another()
explode_each(S, target, todo) ==
    IF ~ok(S) \/ todo = <<>> THEN S
    ELSE IF ~hasattr(S.heap, Head(todo), "explode") THEN raise(S, "AttributeError")
    ELSE Then(IF S.heap[Head(todo)].type = "Literal"
              THEN [S EXCEPT !.heap[Head(todo)].exploded = TRUE]
              ELSE Die_explode(S, Head(todo)),
              LAMBDA X :
                 IF ~hasattr(X.heap, target, "roll_another")
                 THEN raise(X, "AttributeError")
                 ELSE Then(roll_another(X, target),
                           LAMBDA E : explode_each(E, target, Tail(todo))))

RECURSIVE explode_loop(_, _, _, _, _)
explode_loop(S, self, target, to_explode, already_exploded) ==
    IF to_explode = {} THEN S
    ELSE Then(explode_each(S, target, SetToSeq(to_explode)),
              LAMBDA E :
                 IF ~ok(E) THEN E
                 ELSE Then(select(E.heap, self, target, NoLimit)
                              \ (already_exploded \cup to_explode),
                           LAMBDA next :
                              explode_loop(E, self, target, next,
                                           already_exploded \cup to_explode)))

\* an explode that makes one pass: the new dice are not looked at
explode_single_pass(S, self, target) ==
    Then(select(S.heap, self, target, NoLimit),
         LAMBDA to_explode : explode_each(S, target, SetToSeq(to_explode)))

\* SetOperator.explode (e)
explode(S, self, target) ==
    Then(select(S.heap, self, target, NoLimit),
         LAMBDA to_explode : explode_loop(S, self, target, to_explode, {}))

\* an explode_once that explodes every selected die
explode_once_unlimited(S, self, target) ==
    Then(select(S.heap, self, target, NoLimit),
         LAMBDA to_explode : explode_each(S, target, SetToSeq(to_explode)))

\* SetOperator.explode_once (ra)
explode_once(S, self, target) ==
    Then(select(S.heap, self, target, 1),
         LAMBDA to_explode : explode_each(S, target, SetToSeq(to_explode)))

\* a Literal.update that replaces the value: the history is lost
Literal_update_overwriting(h, n, value) == [h EXCEPT ![n].values = <<value>>]

\* Literal.update
Literal_update(h, n, value) == [h EXCEPT ![n].values = Append(@, value)]

\* Die.force_value
force_value(h, die, new_value) ==
    IF h[die].values # <<>> THEN Literal_update(h, Last(h[die].values), new_value)
    ELSE h

RECURSIVE minimum_loop(_, _, _)
minimum_loop(S, the_min, todo) ==
    IF ~ok(S) \/ todo = <<>> THEN S
    ELSE IF number_exc(S.heap, Head(todo)) # None
         THEN raise(S, number_exc(S.heap, Head(todo)))
    ELSE IF number(S.heap, Head(todo)) < the_min
         THEN IF ~hasattr(S.heap, Head(todo), "force_value")
              THEN raise(S, "AttributeError")
              ELSE Then([S EXCEPT !.heap = force_value(@, Head(todo), the_min)],
                        LAMBDA F : minimum_loop(F, the_min, Tail(todo)))
         ELSE minimum_loop(S, the_min, Tail(todo))

\* a minimum that looks at the dropped dice too
minimum_of_dropped_too(S, self, target) ==
    LET selector == Last(self.sels)
    IN IF selector.cat # None THEN raise(S, "RollValueError")
       ELSE minimum_loop(S, selector.num, set(S.heap, target))

\* SetOperator.minimum (mi)
minimum(S, self, target) ==
    LET selector == Last(self.sels)
    IN IF selector.cat # None THEN raise(S, "RollValueError")
       ELSE minimum_loop(S, selector.num, keptset(S.heap, target))

RECURSIVE maximum_loop(_, _, _)
maximum_loop(S, the_max, todo) ==
    IF ~ok(S) \/ todo = <<>> THEN S
    ELSE IF number_exc(S.heap, Head(todo)) # None
         THEN raise(S, number_exc(S.heap, Head(todo)))
    ELSE IF number(S.heap, Head(todo)) > the_max
         THEN IF ~hasattr(S.heap, Head(todo), "force_value")
              THEN raise(S, "AttributeError")
              ELSE Then([S EXCEPT !.heap = force_value(@, Head(todo), the_max)],
                        LAMBDA F : maximum_loop(F, the_max, Tail(todo)))
         ELSE maximum_loop(S, the_max, Tail(todo))

\* SetOperator.maximum (ma)
maximum(S, self, target) ==
    LET selector == Last(self.sels)
    IN IF selector.cat # None THEN raise(S, "RollValueError")
       ELSE maximum_loop(S, selector.num, keptset(S.heap, target))

\* SetOperator.operate
operate(S, self, target) ==
    CASE self.op = "k" ->
            IF keptset(S.heap, target) # <<>> /\ select_exc(S.heap, self, target) # None
            THEN raise(S, select_exc(S.heap, self, target))
            ELSE [S EXCEPT !.heap = keep(S.heap, self, target)]
      [] self.op = "p" ->
            IF select_exc(S.heap, self, target) # None
            THEN raise(S, select_exc(S.heap, self, target))
            ELSE [S EXCEPT !.heap = drop(S.heap, self, target)]
      [] self.op = "rr" -> reroll(S, self, target)
      [] self.op = "ro" -> reroll_once(S, self, target)
      [] self.op = "ra" -> explode_once(S, self, target)
      [] self.op = "e" -> explode(S, self, target)
      [] self.op = "mi" -> minimum(S, self, target)
      [] self.op = "ma" -> maximum(S, self, target)
      [] OTHER -> raise(S, "KeyError")

----------------------------------------------------------------------------
(* Roller: the evaluator *)

RECURSIVE _eval(_, _)

\* Roller._eval_annotatednumber: ''.join(node.annotations) on the target
_eval_annotatednumber(S, node) ==
    Then(_eval(S, node.value),
         LAMBDA V : IF ~ok(V) THEN V
                    ELSE [V EXCEPT !.heap[V.val].annotation = join("", node.annotations)])

\* Roller._eval_literal
_eval_literal(S, node) == new(S, Literal(node.value))

\* Roller._eval_parenthetical
_eval_parenthetical(S, node) ==
    Then(_eval(S, node.value),
         LAMBDA V : IF ~ok(V) THEN V ELSE new(V, Parenthetical(V.val)))

\* Roller._eval_unop
_eval_unop(S, node) ==
    Then(_eval(S, node.value),
         LAMBDA V : IF ~ok(V) THEN V ELSE new(V, UnOp(node.op, V.val)))

\* an _eval_binop that computes the number of the node it builds
_eval_binop_eager(S, node) ==
    Then(_eval(S, node.left),
         LAMBDA L :
            IF ~ok(L) THEN L
            ELSE Then(_eval(L, node.right),
                      LAMBDA R :
                         IF ~ok(R) THEN R
                         ELSE Then(new(R, BinOp(L.val, node.op, R.val)),
                                   LAMBDA B :
                                      IF number_exc(B.heap, B.val) # None
                                      THEN raise(B, number_exc(B.heap, B.val))
                                      ELSE B)))

\* Roller._eval_binop
_eval_binop(S, node) ==
    Then(_eval(S, node.left),
         LAMBDA L :
            IF ~ok(L) THEN L
            ELSE Then(_eval(L, node.right),
                      LAMBDA R : IF ~ok(R) THEN R
                                 ELSE new(R, BinOp(L.val, node.op, R.val))))

RECURSIVE _eval_numberset_loop(_, _, _)
_eval_numberset_loop(S, todo, values) ==
    IF ~ok(S) THEN S
    ELSE IF todo = <<>> THEN new(S, Set(values))
    ELSE Then(_eval(S, Head(todo)),
              LAMBDA V : _eval_numberset_loop(V, Tail(todo), Append(values, V.val)))

\* Roller._eval_numberset
_eval_numberset(S, node) == _eval_numberset_loop(S, node.values, <<>>)

\* Roller._eval_dice
_eval_dice(S, node) == Dice_new(S, node.num, node.size)

RECURSIVE _eval_operatedset_loop(_, _, _)
_eval_operatedset_loop(S, target, todo) ==
    LET the_op == SetOperator_from_ast(Head(todo))
        append(O) ==
            [O EXCEPT !.heap[target].operations = Append(@, the_op),
                      !.log = Append(@, [self |-> the_op, target |-> target,
                                         before |-> S.heap, after |-> O.heap,
                                         exploded |-> SubSeq(O.explosions,
                                                             Len(S.explosions) + 1,
                                                             Len(O.explosions))])]
    IN IF ~ok(S) THEN S
       ELSE IF todo = <<>> THEN [S EXCEPT !.val = target]
       ELSE Then(operate(S, the_op, target),
                 LAMBDA O :
                    IF ~ok(O) THEN O
                    ELSE IF ~hasattr(O.heap, target, "operations")
                         THEN raise(O, "AttributeError")
                    ELSE Then(append(O),
                              LAMBDA A : _eval_operatedset_loop(A, target, Tail(todo))))

\* Roller._eval_operatedset, Roller._eval_operateddice
_eval_operatedset(S, node) ==
    Then(_eval(S, node.value),
         LAMBDA T : IF ~ok(T) THEN T
                    ELSE _eval_operatedset_loop(T, T.val, node.operations))

\* Roller._eval_expression
_eval_expression(S, node) ==
    Then(_eval(S, node.roll),
         LAMBDA R : IF ~ok(R) THEN R ELSE new(R, Expression(R.val, node.comment)))

\* Roller._eval: the handler of the node's type
_eval(S, node) ==
    CASE node.type = "ast.Expression" -> _eval_expression(S, node)
      [] node.type = "ast.AnnotatedNumber" -> _eval_annotatednumber(S, node)
      [] node.type = "ast.Literal" -> _eval_literal(S, node)
      [] node.type = "ast.Parenthetical" -> _eval_parenthetical(S, node)
      [] node.type = "ast.UnOp" -> _eval_unop(S, node)
      [] node.type = "ast.BinOp" -> _eval_binop(S, node)
      [] node.type = "ast.OperatedSet" -> _eval_operatedset(S, node)
      [] node.type = "ast.NumberSet" -> _eval_numberset(S, node)
      [] node.type = "ast.OperatedDice" -> _eval_operatedset(S, node)
      [] node.type = "ast.Dice" -> _eval_dice(S, node)

\* Roller.roll(expr) for a parsed tree, on the values the random source
\* returns; r0 is context.rolls after the reset
roll(expr, r0, values) ==
    Then([heap |-> <<>>, rolls |-> r0, tape |-> values, status |-> "ok",
          val |-> 0, pending |-> 0, log |-> <<>>, explosions |-> <<>>, rerolls |-> <<>>],
         LAMBDA S : _eval(S, expr))

----------------------------------------------------------------------------
(* The trees handed to roll() *)

Cats == {"l", "h", "<", ">", None}

Sels == {ast_SetSelector(c, n) : c \in Cats, n \in 0..MaxSel}

\* the selectors of the two-operator trees: l1, h1, <2, >1 and 1
FewSels ==
    {ast_SetSelector("l", 1), ast_SetSelector("h", 1), ast_SetSelector("<", 2),
     ast_SetSelector(">", 1), ast_SetSelector(None, 1)}

SetOps == {"k", "p"}

DiceOps == {"k", "p", "rr", "ro", "ra", "e"}

Expr(node) == ast_Expression(node, None)

\* NdS and Nd%, up to one die more than the budget
DiceTerms ==
    {ast_Dice(n, s) : n \in 0..MaxNum, s \in 1..MaxSize}
        \cup {ast_Dice(n, Percent) : n \in 0..MaxNum}
        \cup {ast_Dice(max_rolls, 1), ast_Dice(max_rolls + 1, 1)}

\* die sizes below 1 (-1 stands for '%' in the model, so -2 is the negative one)
BadSizes == {0, -2}

\* Nd0 and Nd(-2), up to one die more than the budget, and 1d2 + 1d0
ZeroSided ==
    {ast_Dice(n, s) : n \in (0..MaxNum) \cup {max_rolls + 1}, s \in BadSizes}
        \cup {ast_BinOp(ast_Dice(1, 2), "+", ast_Dice(1, 0))}

\* MaxNum d1 + (max_rolls + 1 - MaxNum) d1: one die more than the budget
OverBudgetSum ==
    ast_BinOp(ast_Dice(MaxNum, 1), "+", ast_Dice(max_rolls + 1 - MaxNum, 1))

\* NdS followed by one operator with one selector
OperatedDice1 ==
    {ast_OperatedDice(ast_Dice(n, s), <<ast_SetOperator(o, <<sel>>)>>) :
        n \in 0..MaxNum, s \in 1..MaxSize, o \in DiceOps, sel \in Sels}

\* 2d2 followed by two operators (merged when they are the same)
OperatedDice2 ==
    {ast_OperatedDice(ast_Dice(2, 2),
                      <<ast_SetOperator(o1, <<s1>>), ast_SetOperator(o2, <<s2>>)>>) :
        o1 \in DiceOps, s1 \in FewSels, o2 \in DiceOps, s2 \in FewSels}

\* (1d4, 2+2, 3d6kl1)kh1
MixedSet ==
    ast_OperatedSet(
        ast_NumberSet(<<ast_Dice(1, 4),
                        ast_BinOp(ast_Literal(2), "+", ast_Literal(2)),
                        ast_OperatedDice(ast_Dice(3, 6),
                            <<ast_SetOperator("k", <<ast_SetSelector("l", 1)>>)>>)>>),
        <<ast_SetOperator("k", <<ast_SetSelector("h", 1)>>)>>)

\* the numbers of mi and ma: from below every die value to above every one
ImmediateSels == {ast_SetSelector(c, n) : c \in Cats, n \in 0..(MaxSize + 1)}

\* NdS followed by one mi or ma
ImmediateDice1 ==
    {ast_OperatedDice(ast_Dice(n, s), <<ast_SetOperator(o, <<sel>>)>>) :
        n \in 0..MaxNum, s \in 1..MaxSize, o \in IMMEDIATE, sel \in ImmediateSels}

\* 2d2 followed by pl1, k>1 or ro1 and then by mi or ma
ImmediateDice2 ==
    {ast_OperatedDice(ast_Dice(2, 2),
                      <<o1, ast_SetOperator(o2, <<ast_SetSelector(None, n)>>)>>) :
        o1 \in {ast_SetOperator("p", <<ast_SetSelector("l", 1)>>),
                ast_SetOperator("k", <<ast_SetSelector(">", 1)>>),
                ast_SetOperator("ro", <<ast_SetSelector(None, 1)>>)},
        o2 \in IMMEDIATE, n \in 0..3}

\* 2d2 followed by an mi or ma that was built with two selectors
ImmediateDice3 ==
    {ast_OperatedDice(ast_Dice(2, 2), <<ast_SetOperator(o, <<s1, s2>>)>>) :
        o \in IMMEDIATE,
        s1 \in {ast_SetSelector("l", 1), ast_SetSelector(None, 3)},
        s2 \in {ast_SetSelector("h", 1), ast_SetSelector(None, 0),
                ast_SetSelector(None, 2)}}

\* the right operands of the divisions: of total 0, 1, 2 and 5
Divisors ==
    {ast_Literal(0), ast_Literal(1), ast_Literal(2), ast_Literal(5),
     ast_BinOp(ast_Literal(1), "<", ast_Literal(0)),
     ast_BinOp(ast_Literal(0), "*", ast_Literal(3)),
     ast_UnOp("-", ast_Literal(0)),
     ast_OperatedSet(ast_Parenthetical(ast_Literal(1)),
                     <<ast_SetOperator("p", <<ast_SetSelector(None, 1)>>)>>),
     ast_OperatedSet(ast_NumberSet(<<ast_Literal(2), ast_Literal(3)>>),
                     <<ast_SetOperator("k", <<ast_SetSelector(None, 1)>>)>>),
     ast_OperatedDice(ast_Dice(1, 2),
                      <<ast_SetOperator("p", <<ast_SetSelector("l", 1)>>)>>),
     ast_OperatedDice(ast_Dice(1, 2),
                      <<ast_SetOperator("k", <<ast_SetSelector(None, 1)>>)>>),
     ast_BinOp(ast_Dice(1, 2), "-", ast_Literal(1))}

\* l / r, l // r and l % r
Divisions ==
    {ast_BinOp(ast_Literal(l), o, r) : l \in {0, 10}, o \in DIVISIONS, r \in Divisors}

\* a division under another node
DivisionsWithin ==
    UNION {{ast_BinOp(ast_Literal(1), "+", d), ast_BinOp(d, "//", ast_Literal(2)),
            ast_UnOp("-", d), ast_Parenthetical(d),
            ast_NumberSet(<<d, ast_Literal(1)>>),
            ast_OperatedSet(ast_NumberSet(<<d, ast_Literal(1)>>),
                            <<ast_SetOperator("k", <<ast_SetSelector("h", 1)>>)>>),
            ast_OperatedSet(ast_NumberSet(<<ast_Literal(1), d>>),
                            <<ast_SetOperator("p", <<ast_SetSelector(None, 1)>>)>>)} :
           d \in {ast_BinOp(ast_Literal(10), o, r) :
                    o \in DIVISIONS, r \in {ast_Literal(0), ast_Literal(2)}}}

\* an integer literal of more digits than float_max has, divided by 1
Overflows ==
    {ast_BinOp(ast_Literal(float_max + 1), o, ast_Literal(1)) : o \in DIVISIONS}
        \cup {ast_BinOp(ast_Literal(float_max), "/", ast_Literal(1)),
              ast_OperatedSet(
                  ast_NumberSet(<<ast_BinOp(ast_Literal(float_max + 1), "/",
                                            ast_Literal(1)),
                                  ast_Literal(1)>>),
                  <<ast_SetOperator("k", <<ast_SetSelector("h", 1)>>)>>)}

\* 2d20kh1 and 2d20kl1: what ast_adv_copy makes of 1d20
Advantage ==
    ast_OperatedDice(ast_Dice(2, 20), <<ast_SetOperator("k", <<ast_SetSelector("h", 1)>>)>>)

Disadvantage ==
    ast_OperatedDice(ast_Dice(2, 20), <<ast_SetOperator("k", <<ast_SetSelector("l", 1)>>)>>)

\* (1d20, 5)kl1: the d20 is dropped when it shows more than 5
D20OrFive ==
    ast_OperatedSet(ast_NumberSet(<<ast_Dice(1, 20), ast_Literal(5)>>),
                    <<ast_SetOperator("k", <<ast_SetSelector("l", 1)>>)>>)

\* d20s at the left and elsewhere
D20s ==
    {ast_Dice(0, 20), ast_Dice(1, 20), ast_Dice(2, 20), Advantage, Disadvantage,
     ast_BinOp(ast_Dice(1, 20), "+", ast_Literal(1)),
     ast_BinOp(ast_Literal(1), "+", ast_Dice(1, 20)),
     ast_UnOp("-", ast_Dice(1, 20)),
     ast_Parenthetical(ast_Dice(1, 20)),
     ast_NumberSet(<<ast_Dice(1, 20), ast_Literal(5)>>),
     D20OrFive}

\* (v1, ..., vn): up to MaxLen literals
LiteralSets ==
    {ast_NumberSet([i \in 1..Len(v) |-> ast_Literal(v[i])]) :
        v \in UNION {[1..n -> 1..MaxSize] : n \in 0..MaxLen}}

\* a set of literals followed by one k or p with one selector
OperatedSet1 ==
    {ast_OperatedSet(t, <<ast_SetOperator(o, <<sel>>)>>) :
        t \in LiteralSets, o \in SetOps, sel \in Sels}

\* a set of MaxLen literals followed by two of k and p (merged when the same)
OperatedSet2 ==
    {ast_OperatedSet(t, <<ast_SetOperator(o1, <<s1>>), ast_SetOperator(o2, <<s2>>)>>) :
        t \in {u \in LiteralSets : Len(u.values) = MaxLen},
        o1 \in SetOps, s1 \in FewSels, o2 \in SetOps, s2 \in FewSels}

\* (1, 2, 3, 4, 5)
OneToFive == ast_NumberSet([i \in 1..5 |-> ast_Literal(i)])

\* (1, 2, 3, 4, 5)k3
Keep3 == ast_OperatedSet(OneToFive, <<ast_SetOperator("k", <<ast_SetSelector(None, 3)>>)>>)

\* (1, 2, 3, 4, 5)k>3
KeepOver3 ==
    ast_OperatedSet(OneToFive, <<ast_SetOperator("k", <<ast_SetSelector(">", 3)>>)>>)

\* (1, 2, 3, 4, 5)p3
Drop3 == ast_OperatedSet(OneToFive, <<ast_SetOperator("p", <<ast_SetSelector(None, 3)>>)>>)

\* (1, 2, 3, 4, 5)ph1pl1
DropEnds ==
    ast_OperatedSet(OneToFive, <<ast_SetOperator("p", <<ast_SetSelector("h", 1)>>),
                                 ast_SetOperator("p", <<ast_SetSelector("l", 1)>>)>>)

\* (1)k2: one value in parentheses is a Parenthetical, not a set
KeepParen ==
    ast_OperatedSet(ast_Parenthetical(ast_Literal(1)),
                    <<ast_SetOperator("k", <<ast_SetSelector(None, 2)>>)>>)

SetExamples == {Keep3, KeepOver3, Drop3, DropEnds, KeepParen}

\* (2d2kh1)pl1, (2d2kh1)kl1, (2d2pl1)p>0: an operator on the parenthetical
\* around dice of which one was dropped
NestedOps ==
    {ast_OperatedSet(ast_Parenthetical(ast_OperatedDice(ast_Dice(2, 2), <<o1>>)), <<o2>>) :
        o1 \in {ast_SetOperator("k", <<ast_SetSelector("h", 1)>>),
                ast_SetOperator("p", <<ast_SetSelector("l", 1)>>)},
        o2 \in {ast_SetOperator("p", <<ast_SetSelector("l", 1)>>),
                ast_SetOperator("k", <<ast_SetSelector("l", 1)>>),
                ast_SetOperator("p", <<ast_SetSelector(">", 0)>>)}}

Inputs ==
    {Expr(t) : t \in DiceTerms \cup OperatedDice1 \cup OperatedDice2
                        \cup OperatedSet1 \cup OperatedSet2 \cup SetExamples
                        \cup ImmediateDice1 \cup ImmediateDice2 \cup ImmediateDice3
                        \cup Divisions \cup DivisionsWithin \cup ZeroSided
                        \cup Overflows \cup D20s \cup NestedOps
                        \cup {OverBudgetSum, MixedSet}}

\* the trees of a Roller that is called several times
CallInputs == {Expr(ast_Dice(n, s)) : n \in 0..(max_rolls + 1), s \in 1..MaxSize}

----------------------------------------------------------------------------
(* The Roller *)

\* no roll() call was made yet
NoTree == [type |-> None]

\* Roller.__init__ with RollContext(max_rolls)
Init ==
    /\ ev = [heap |-> <<>>, rolls |-> 0, tape |-> <<>>, status |-> "idle",
             val |-> 0, pending |-> 0, log |-> <<>>, explosions |-> <<>>, rerolls |-> <<>>]
    /\ base = 0
    /\ dice_tree = NoTree
    /\ tape = <<>>
    /\ calls = 0
    /\ prev = "none"
    /\ ast = [call |-> None]
    /\ rollers = [r \in Rollers |-> 0]
    /\ threads = [t \in Threads |->
                    [pc |-> "idle", roller |-> 0, dice_tree |-> NoTree, todo |-> 0,
                     drawn |-> 0, calls |-> 0, local |-> 0, overlap |-> FALSE]]

\* Roller.roll(expr) is called: reset, then evaluation up to the first draw
Roll(expr) ==
    /\ pc # "drawing"
    /\ calls < MaxCalls
    /\ calls' = calls + 1
    /\ prev' = pc
    /\ dice_tree' = expr
    /\ tape' = <<>>
    /\ base' = reset(rolls)
    /\ ev' = roll(expr, reset(rolls), <<>>)
    /\ UNCHANGED <<ast, rollers, threads>>

\* random.randrange returns r: evaluation goes on up to the next draw
Draw(r) ==
    /\ pc = "drawing"
    /\ Len(tape) < MaxTape
    /\ tape' = Append(tape, r)
    /\ ev' = roll(dice_tree, base, Append(tape, r))
    /\ UNCHANGED <<base, dice_tree, calls, prev, ast, rollers, threads>>

\* one roll() call on a fresh Roller
Next ==
    \/ \E expr \in Inputs : calls = 0 /\ Roll(expr)
    \/ \E r \in randrange(pending) : Draw(r)

Spec == Init /\ [][Next]_vars

\* the random source returns from every call made to it
LiveSpec == Spec /\ WF_vars(\E r \in randrange(pending) : Draw(r))

\* MaxCalls roll() calls, one after the other, on the same Roller
NextCalls ==
    \/ \E expr \in CallInputs : Roll(expr)
    \/ \E r \in randrange(pending) : Draw(r)

CallsSpec == Init /\ [][NextCalls]_vars

\* 1 + 2 + 3
OnePlusTwoPlusThree ==
    ast_BinOp(ast_BinOp(ast_Literal(1), "+", ast_Literal(2)), "+", ast_Literal(3))

ReadInputs == {Expr(t) : t \in D20s \cup DiceTerms \cup SetExamples \cup {OnePlusTwoPlusThree}}

\* the caller changes the tree of the result: result.expr.roll =
\* BinOp(result.expr.roll, "+", Literal(4)), or with the operands exchanged
SetRoll(old_at_left) ==
    /\ pc = "returned"
    /\ ev = roll(dice_tree, base, tape)
    /\ ev' = Then(new(ev, Literal(4)), LAMBDA L :
             Then(new(L, IF old_at_left THEN BinOp(ev.heap[ev.val].roll, "+", L.val)
                                        ELSE BinOp(L.val, "+", ev.heap[ev.val].roll)),
                  LAMBDA B : [B EXCEPT !.heap[ev.val].roll = B.val, !.val = ev.val]))
    /\ UNCHANGED <<base, dice_tree, tape, calls, prev, ast, rollers, threads>>

\* one roll() call, and what the caller does with its result
NextRead ==
    \/ \E expr \in ReadInputs : calls = 0 /\ Roll(expr)
    \/ \E r \in randrange(pending) : Draw(r)
    \/ \E old_at_left \in BOOLEAN : SetRoll(old_at_left)

ReadSpec == Init /\ [][NextRead]_vars

\* the operators that SetOperator.operate marks as dice only
DiceOnly == {"rr", "ro", "ra", "e", "mi", "ma"}

\* op symbols that the table of SetOperator.operate has no entry for
UnknownOps == {"x", "mil", "K"}

\* what a hand-built OperatedSet can hold that is not a Dice:
\* (1, 2), (), (1d2,), (1), (1d2) and 1
NonDice ==
    {ast_NumberSet(<<ast_Literal(1), ast_Literal(2)>>), ast_NumberSet(<<>>),
     ast_NumberSet(<<ast_Dice(1, 2)>>), ast_Parenthetical(ast_Literal(1)),
     ast_Parenthetical(ast_Dice(1, 2)), ast_Literal(1)}

\* trees built by hand: every operator symbol on a target that is not a
\* Dice, and on 1d2 and 2d2
BuiltInputs ==
    {Expr(ast_OperatedSet(t, <<ast_SetOperator(o, <<sel>>)>>)) :
        t \in NonDice, o \in SetOps \cup DiceOnly \cup UnknownOps, sel \in Sels}
      \cup {Expr(ast_OperatedDice(ast_Dice(n, 2), <<ast_SetOperator(o, <<sel>>)>>)) :
                n \in 1..2, o \in DiceOnly \cup UnknownOps, sel \in Sels}

\* one roll() call on a hand-built tree
NextBuilt ==
    \/ \E expr \in BuiltInputs : calls = 0 /\ Roll(expr)
    \/ \E r \in randrange(pending) : Draw(r)

BuiltSpec == Init /\ [][NextBuilt]_vars

----------------------------------------------------------------------------
(* roll() calls made by threads.  A thread's call is followed through the  *)
(* statements that touch the RollContext: reset() in Roller.roll, and for  *)
(* every die of Dice.new the read and the write of `self.rolls += n` and   *)
(* the comparison with max_rolls in count_roll.                            *)

\* Nd1 with max_rolls and max_rolls + 1 dice
ThreadInputs == {Expr(ast_Dice(n, 1)) : n \in {max_rolls, max_rolls + 1}}

\* thread t is inside roll()
InCall(t) == threads[t].pc \in {"load", "store", "check"}

\* thread t calls roller.roll(expr) on Roller r: self.context.reset()
Call(t, r, expr) ==
    /\ ~InCall(t)
    /\ threads[t].calls < MaxCalls
    /\ LET others == {u \in Threads \ {t} : InCall(u) /\ threads[u].roller = r}
       IN  threads' = [u \in Threads |->
                IF u = t
                THEN [pc |-> "load", roller |-> r, dice_tree |-> expr,
                      todo |-> expr.roll.num, drawn |-> 0,
                      calls |-> threads[t].calls + 1, local |-> 0,
                      overlap |-> others # {}]
                ELSE IF u \in others THEN [threads[u] EXCEPT !.overlap = TRUE]
                ELSE threads[u]]
    /\ rollers' = [rollers EXCEPT ![r] = reset(@)]
    /\ UNCHANGED <<ev, base, dice_tree, tape, calls, prev, ast>>

\* count_roll: self.rolls is read
Load(t) ==
    /\ threads[t].pc = "load"
    /\ threads' = [threads EXCEPT ![t].local = rollers[threads[t].roller],
                                  ![t].pc = "store"]
    /\ UNCHANGED <<ev, base, dice_tree, tape, calls, prev, ast, rollers>>

\* count_roll: self.rolls is written with what was read + 1
Store(t) ==
    /\ threads[t].pc = "store"
    /\ rollers' = [rollers EXCEPT ![threads[t].roller] = threads[t].local + 1]
    /\ threads' = [threads EXCEPT ![t].pc = "check", ![t].local = 0]
    /\ UNCHANGED <<ev, base, dice_tree, tape, calls, prev, ast>>

\* count_roll: if self.rolls > self.max_rolls: raise TooManyRolls; otherwise
\* the die is drawn and Dice.new goes on to the next one or returns
Check(t) ==
    /\ threads[t].pc = "check"
    /\ threads' = [threads EXCEPT ![t] =
            IF rollers[threads[t].roller] > max_rolls
            THEN [@ EXCEPT !.pc = "TooManyRolls"]
            ELSE [@ EXCEPT !.drawn = @ + 1, !.todo = @ - 1,
                           !.pc = IF threads[t].todo = 1 THEN "returned" ELSE "load"]]
    /\ UNCHANGED <<ev, base, dice_tree, tape, calls, prev, ast, rollers>>

\* threads make up to MaxCalls roll() calls each on the Rollers
NextThreads ==
    \E t \in Threads :
        \/ \E r \in Rollers : \E expr \in ThreadInputs : Call(t, r, expr)
        \/ Load(t)
        \/ Store(t)
        \/ Check(t)

ThreadSpec == Init /\ [][NextThreads]_vars

----------------------------------------------------------------------------
(* ASTs built and used outside roll() *)

\* sequences of 1..n elements of S
SeqsUpTo(S, n) == UNION {[1..k -> S] : k \in 1..n}

\* operators as the grammar's dice_op rule yields them: one selector each
WrittenDiceOps ==
    {ast_SetOperator(o, <<ast_SetSelector(None, n)>>) :
        o \in {"k", "rr", "mi", "ma"}, n \in 1..2}

\* operators as the grammar's set_op rule yields them
WrittenSetOps ==
    {ast_SetOperator(o, <<sel>>) :
        o \in SetOps,
        sel \in {ast_SetSelector(None, 1), ast_SetSelector(None, 2),
                 ast_SetSelector(None, 3), ast_SetSelector("h", 1)}}

\* (1, 2, 3)
OneToThree == ast_NumberSet([i \in 1..3 |-> ast_Literal(i)])

\* the tree that was built has not been rolled
NotRolled == [status |-> None]

\* RollTransformer.dice: OperatedDice(*opdice)
BuildOperatedDice(the_dice, operations) ==
    /\ ast.call = None
    /\ ast' = [call |-> "OperatedDice", written |-> operations,
               tree |-> ast_OperatedDice(the_dice, operations), result |-> NotRolled]
    /\ UNCHANGED <<ev, base, dice_tree, tape, calls, prev, rollers, threads>>

\* RollTransformer.set: OperatedSet(*opset)
BuildOperatedSet(the_set, operations) ==
    /\ ast.call = None
    /\ ast' = [call |-> "OperatedSet", written |-> operations,
               tree |-> ast_OperatedSet(the_set, operations), result |-> NotRolled]
    /\ UNCHANGED <<ev, base, dice_tree, tape, calls, prev, rollers, threads>>

\* the set that was built is rolled: sets of literals ask for no draw
RollBuilt ==
    /\ ast.call = "OperatedSet"
    /\ ast.result = NotRolled
    /\ ast' = [ast EXCEPT !.result = roll(Expr(ast.tree), 0, <<>>)]
    /\ UNCHANGED <<ev, base, dice_tree, tape, calls, prev, rollers, threads>>

\* 1d20ro1
D20Reroll ==
    ast_OperatedDice(ast_Dice(1, 20), <<ast_SetOperator("ro", <<ast_SetSelector(None, 1)>>)>>)

\* the trees given to ast_adv_copy: with 1d20 as the leftmost leaf, at the
\* root, under each type of node, with and without operators, and without it
AdvTrees ==
    {ast_Dice(1, 20), ast_OperatedDice(ast_Dice(1, 20), <<>>), ast_Literal(5)}
        \cup {Expr(t) : t \in
                {ast_Dice(1, 20), ast_Dice(2, 20), ast_Dice(1, 6), ast_Literal(5),
                 ast_OperatedDice(ast_Dice(1, 20), <<>>), D20Reroll,
                 ast_OperatedDice(ast_Dice(1, 20),
                                  <<ast_SetOperator("k", <<ast_SetSelector("h", 1)>>)>>),
                 ast_OperatedDice(ast_Dice(1, 6),
                                  <<ast_SetOperator("k", <<ast_SetSelector("h", 1)>>)>>),
                 ast_BinOp(ast_Dice(1, 20), "+", ast_Literal(5)),
                 ast_BinOp(ast_Literal(5), "+", ast_Dice(1, 20)),
                 ast_BinOp(ast_BinOp(D20Reroll, "+", D20Reroll), "-", ast_Dice(1, 20)),
                 ast_UnOp("-", ast_Dice(1, 20)),
                 ast_Parenthetical(ast_Dice(1, 20)),
                 ast_AnnotatedNumber(D20Reroll, <<"[a]">>),
                 ast_NumberSet(<<>>),
                 ast_OperatedSet(ast_NumberSet(<<ast_Dice(1, 20), D20Reroll>>),
                                 <<ast_SetOperator("k", <<ast_SetSelector("h", 1)>>)>>),
                 ast_OperatedSet(ast_Dice(1, 20),
                                 <<ast_SetOperator("k", <<ast_SetSelector(None, 1)>>)>>)}}

\* Roller.parse: the AST of a string, which the parse cache keeps
Parse(t) ==
    /\ ast.call = None
    /\ ast' = [call |-> "parse", text |-> t, count |-> 0,
               heap |-> ast_load(Objects(<<>>), t).heap,
               cached |-> ast_load(Objects(<<>>), t).val]
    /\ UNCHANGED <<ev, base, dice_tree, tape, calls, prev, rollers, threads>>

\* Roller.roll(text, advantage=advtype): utils.ast_adv_copy on the cached AST
AdvCopy(advtype) ==
    /\ ast.call \in {"parse", "ast_adv_copy"}
    /\ ast.count < MaxCalls
    /\ ast' = Then(ast_adv_copy(ast.heap, ast.cached, advtype), LAMBDA R :
                  [call |-> "ast_adv_copy", text |-> ast.text, count |-> ast.count + 1,
                   cached |-> ast.cached, before |-> ast.heap, advtype |-> advtype,
                   heap |-> R.heap, val |-> R.val, status |-> R.status])
    /\ UNCHANGED <<ev, base, dice_tree, tape, calls, prev, rollers, threads>>

\* utils.tree_map(func, tree) on a parsed tree
TreeMap(func) ==
    /\ ast.call = "parse"
    /\ ast' = Then(tree_map(Objects(ast.heap), func, ast.cached), LAMBDA R :
                  [call |-> "tree_map", text |-> ast.text, count |-> ast.count + 1,
                   cached |-> ast.cached, before |-> ast.heap, func |-> func,
                   heap |-> R.heap, val |-> R.val, status |-> R.status])
    /\ UNCHANGED <<ev, base, dice_tree, tape, calls, prev, rollers, threads>>

NextAst ==
    \/ \E ops \in SeqsUpTo(WrittenDiceOps, MaxOps) :
            BuildOperatedDice(ast_Dice(1, 20), ops)
    \/ \E ops \in SeqsUpTo(WrittenSetOps, MaxOps) :
            \E the_set \in {OneToThree, OneToFive} : BuildOperatedSet(the_set, ops)
    \/ RollBuilt
    \/ \E t \in AdvTrees : Parse(t)
    \/ \E advtype \in {AdvType_NONE, AdvType_ADV, AdvType_DIS} : AdvCopy(advtype)
    \/ \E func \in Mappers : TreeMap(func)

AstSpec == Init /\ [][NextAst]_vars

----------------------------------------------------------------------------
(* the parser: lark's LALR(1) parser on the grammar of the dice language.  *)
(* A rule reads the text from position i on and gives the tree it built    *)
(* and the position after it, or the position where no token of the        *)
(* grammar can follow                                                      *)

Accept(val, pos) == [ok |-> TRUE, val |-> val, pos |-> pos]

\* lark.UnexpectedInput with pos_in_stream = pos - 1
UnexpectedInput(pos) == [ok |-> FALSE, val |-> NoTree, pos |-> pos]

\* the character at position i, "$END" after the last one
char(text, i) == IF i <= Len(text) THEN SubSeq(text, i, i) ELSE "$END"

RECURSIVE skip(_, _)
\* whitespace between tokens is ignored
skip(text, i) == IF char(text, i) = " " THEN skip(text, i + 1) ELSE i

\* text has tok at position i
startswith(text, i, tok) ==
    i + Len(tok) - 1 <= Len(text) /\ SubSeq(text, i, i + Len(tok) - 1) = tok

RECURSIVE match(_, _, _)
\* the first of the terminals toks that text has at position i, or None
match(text, i, toks) ==
    IF toks = <<>> THEN None
    ELSE IF startswith(text, i, Head(toks)) THEN Head(toks)
    ELSE match(text, i, Tail(toks))

COMP_OP == <<"==", ">=", "<=", "!=", "<", ">">>
A_OP == <<"+", "-">>
M_OP == <<"*", "//", "/", "%">>
U_OP == <<"+", "-">>
OPERATOR == <<"k", "p">>
DICE_OP == <<"rr", "ro", "ra", "e", "mi", "ma">>
SELTYPE == <<"l", "h", "<", ">">>
DIGIT == {"0", "1", "2", "3", "4", "5", "6", "7", "8", "9"}

RECURSIVE digits_end(_, _)
\* the position after the digits that start at i
digits_end(text, i) == IF char(text, i) \in DIGIT THEN digits_end(text, i + 1) ELSE i

RECURSIVE int(_)
\* int(token) of a token made of digits; 0 for the empty string
int(token) ==
    IF token = "" THEN 0
    ELSE 10 * int(SubSeq(token, 1, Len(token) - 1))
            + (CHOOSE d \in 0..9 : ToString(d) = SubSeq(token, Len(token), Len(token)))

RECURSIVE rstrip_zeros(_)
rstrip_zeros(token) ==
    IF token # "" /\ SubSeq(token, Len(token), Len(token)) = "0"
    THEN rstrip_zeros(SubSeq(token, 1, Len(token) - 1)) ELSE token

\* float(token) of a DECIMAL token whose digits are whole before the point
\* and fraction after it: the number digits / 10^scale, digits not ending
\* in 0 unless scale is 0
float(whole, fraction) ==
    [digits |-> int(whole \o rstrip_zeros(fraction)), scale |-> Len(rstrip_zeros(fraction))]

\* literal: INTEGER | DECIMAL, with Literal.__init__
rule_literal(text, i) ==
    LET e == digits_end(text, i)
        f == digits_end(text, e + 1)
    IN  IF char(text, e) = "." /\ (e > i \/ f > e + 1)
        THEN Accept(ast_Literal_float(float(SubSeq(text, i, e - 1),
                                            SubSeq(text, e + 1, f - 1))), f)
        ELSE IF e > i THEN Accept(ast_Literal(int(SubSeq(text, i, e - 1))), e)
        ELSE UnexpectedInput(i)

\* selector: SELTYPE? INTEGER
rule_selector(text, i) ==
    LET cat == match(text, skip(text, i), SELTYPE)
        j == skip(text, IF cat = None THEN i ELSE skip(text, i) + Len(cat))
        e == digits_end(text, j)
    IN  IF e > j THEN Accept(ast_SetSelector(cat, int(SubSeq(text, j, e - 1))), e)
        ELSE UnexpectedInput(j)

RECURSIVE rule_ops(_, _, _, _)
\* set_op* and dice_op*: (terminals selector)*, with SetOperator.new
rule_ops(text, i, terminals, operations) ==
    LET j == skip(text, i)
        op == match(text, j, terminals)
        more(sel) ==
            IF ~sel.ok THEN sel
            ELSE rule_ops(text, sel.pos, terminals,
                          Append(operations, ast_SetOperator(op, <<sel.val>>)))
    IN  IF op = None THEN Accept(operations, i)
        ELSE Then(rule_selector(text, j + Len(op)), more)

\* diceexpr: INTEGER? 'd' (INTEGER | '%'), with RollTransformer.diceexpr
rule_diceexpr(text, i) ==
    LET e == digits_end(text, i)
        d == skip(text, e)
        s == skip(text, d + 1)
        f == digits_end(text, s)
        the_num == IF e > i THEN int(SubSeq(text, i, e - 1)) ELSE 1
    IN  IF char(text, d) # "d" THEN UnexpectedInput(d)
        ELSE IF char(text, s) = "%" THEN Accept(ast_Dice(the_num, Percent), s + 1)
        ELSE IF f > s THEN Accept(ast_Dice(the_num, int(SubSeq(text, s, f - 1))), f)
        ELSE UnexpectedInput(s)

\* dice: diceexpr dice_op*, with RollTransformer.dice
rule_dice(text, i) ==
    LET operated(the_dice, ops) ==
            IF ~ops.ok THEN ops
            ELSE IF ops.val = <<>> THEN the_dice
            ELSE Accept(ast_OperatedDice(the_dice.val, ops.val), ops.pos)
        dice_ops(the_dice) ==
            IF ~the_dice.ok THEN the_dice
            ELSE Then(rule_ops(text, the_dice.pos, DICE_OP \o OPERATOR, <<>>),
                      LAMBDA ops : operated(the_dice, ops))
    IN  Then(rule_diceexpr(text, i), dice_ops)

RECURSIVE annotations_end(_, _)
\* the position after the ANNOTATION that starts at i, 0 when it has no end
annotations_end(text, i) ==
    IF i > Len(text) THEN 0
    ELSE IF char(text, i) = "]" THEN i + 1
    ELSE annotations_end(text, i + 1)

RECURSIVE rule_annotations(_, _, _)
\* ANNOTATION*
rule_annotations(text, i, annotations) ==
    LET j == skip(text, i)
        e == annotations_end(text, j)
    IN  IF char(text, j) # "[" \/ e = 0 THEN Accept(annotations, i)
        ELSE rule_annotations(text, e, Append(annotations, SubSeq(text, j, e - 1)))

RECURSIVE rule_comparison(_, _)
RECURSIVE rule_a_num(_, _)
RECURSIVE rule_m_num(_, _)
RECURSIVE rule_u_num(_, _)
RECURSIVE rule_binop(_, _, _)
RECURSIVE rule_setexpr(_, _, _)

\* num: comparison
rule_num(text, i) == rule_comparison(text, i)

\* set: setexpr set_op*, with RollTransformer.set
rule_set(text, i) ==
    LET operated(the_set, ops) ==
            IF ~ops.ok THEN ops
            ELSE IF ops.val = <<>> THEN the_set
            ELSE Accept(ast_OperatedSet(the_set.val, ops.val), ops.pos)
        set_ops(the_set) ==
            IF ~the_set.ok THEN the_set
            ELSE Then(rule_ops(text, the_set.pos, OPERATOR, <<>>),
                      LAMBDA ops : operated(the_set, ops))
    IN  Then(rule_setexpr(text, i + 1, <<>>), set_ops)

\* setexpr: '(' (num (',' num)* ','?)? ')' from the position after '(',
\* with RollTransformer.setexpr
rule_setexpr(text, i, the_set) ==
    LET j == skip(text, i)
        after(n, k) ==
            IF char(text, k) = ","
            THEN rule_setexpr(text, k + 1, Append(the_set, n.val))
            ELSE IF char(text, k) = ")"
            THEN Accept(IF the_set = <<>> THEN ast_Parenthetical(n.val)
                        ELSE ast_NumberSet(Append(the_set, n.val)), k + 1)
            ELSE UnexpectedInput(k)
        element(n) ==
            IF ~n.ok THEN n ELSE Then(skip(text, n.pos), LAMBDA k : after(n, k))
    IN  IF char(text, j) = ")" THEN Accept(ast_NumberSet(the_set), j + 1)
        ELSE Then(rule_num(text, j), element)

\* numexpr: (dice | set | literal) ANNOTATION*, with RollTransformer.numexpr
rule_numexpr(text, i) ==
    LET j == skip(text, i)
        annotated(value, annotations) ==
            IF annotations.val = <<>> THEN value
            ELSE Accept(ast_AnnotatedNumber(value.val, annotations.val), annotations.pos)
        numexpr(value) ==
            IF ~value.ok THEN value
            ELSE Then(rule_annotations(text, value.pos, <<>>),
                      LAMBDA annotations : annotated(value, annotations))
    IN  Then(IF char(text, j) = "(" THEN rule_set(text, j)
             ELSE IF char(text, skip(text, digits_end(text, j))) = "d" THEN rule_dice(text, j)
             ELSE rule_literal(text, j),
             numexpr)

\* u_num: U_OP u_num | numexpr
rule_u_num(text, i) ==
    LET j == skip(text, i)
        op == match(text, j, U_OP)
        unop(value) ==
            IF ~value.ok THEN value ELSE Accept(ast_UnOp(op, value.val), value.pos)
    IN  IF op = None THEN rule_numexpr(text, j)
        ELSE Then(rule_u_num(text, j + 1), unop)

\* left (OP right)* of the level whose terminals are given, left-associative
rule_binop(text, left, level) ==
    LET j == skip(text, left.pos)
        op == match(text, j, CASE level = "comparison" -> COMP_OP
                               [] level = "a_num" -> A_OP
                               [] level = "m_num" -> M_OP)
        binop(right) ==
            IF ~right.ok THEN right
            ELSE Then(Accept(ast_BinOp(left.val, op, right.val), right.pos),
                      LAMBDA both : rule_binop(text, both, level))
    IN  IF op = None THEN left
        ELSE Then(CASE level = "comparison" -> rule_a_num(text, j + Len(op))
                    [] level = "a_num" -> rule_m_num(text, j + Len(op))
                    [] level = "m_num" -> rule_u_num(text, j + Len(op)),
                  binop)

\* m_num: u_num (M_OP u_num)*
rule_m_num(text, i) ==
    Then(rule_u_num(text, i),
         LAMBDA left : IF ~left.ok THEN left ELSE rule_binop(text, left, "m_num"))

\* a_num: m_num (A_OP m_num)*
rule_a_num(text, i) ==
    Then(rule_m_num(text, i),
         LAMBDA left : IF ~left.ok THEN left ELSE rule_binop(text, left, "a_num"))

\* comparison: a_num (COMP_OP a_num)*
rule_comparison(text, i) ==
    Then(rule_a_num(text, i),
         LAMBDA left : IF ~left.ok THEN left ELSE rule_binop(text, left, "comparison"))

\* expr: num, with RollTransformer.expr
rule_expr(text) ==
    LET end(n, c) ==
            IF c <= Len(text) THEN UnexpectedInput(c)
            ELSE Accept(ast_Expression(n.val, None), Len(text) + 1)
    IN  Then(rule_num(text, 1),
             LAMBDA n : IF ~n.ok THEN n
                        ELSE Then(skip(text, n.pos), LAMBDA c : end(n, c)))

\* commented_expr: num COMMENT?, with RollTransformer.commented_expr
rule_commented_expr(text) ==
    LET end(n, c) ==
            Accept(ast_Expression(n.val, IF c <= Len(text)
                                         THEN SubSeq(text, c, Len(text)) ELSE None),
                   Len(text) + 1)
    IN  Then(rule_num(text, 1),
             LAMBDA n : IF ~n.ok THEN n
                        ELSE Then(skip(text, n.pos), LAMBDA c : end(n, c)))

\* ast.parser.parse(text, start=start)
parser_parse(text, start) ==
    IF start = "expr" THEN rule_expr(text) ELSE rule_commented_expr(text)

\* cachetools.LFUCache(maxsize): the entries in the order they were set,
\* each with the number of times it was set or read
cache_maxsize == 2

\* key in cache
cache_contains(cache, key) == \E i \in 1..Len(cache) : cache[i].key = key

\* cache[key], which counts as a use of the entry
cache_getitem(cache, key) ==
    LET i == CHOOSE i \in 1..Len(cache) : cache[i].key = key
    IN  [cache |-> [cache EXCEPT ![i].uses = @ + 1], val |-> cache[i].val]

\* LFUCache.popitem: the least used entry goes, the oldest of them
cache_popitem(cache) ==
    LET i == CHOOSE i \in 1..Len(cache) :
                /\ \A j \in 1..Len(cache) : cache[i].uses <= cache[j].uses
                /\ \A j \in 1..(i - 1) : cache[j].uses > cache[i].uses
    IN  SubSeq(cache, 1, i - 1) \o SubSeq(cache, i + 1, Len(cache))

\* a cache that takes every entry and lets none go
cache_setitem_unbounded(cache, key, val) ==
    Append(cache, [key |-> key, val |-> val, uses |-> 1])

\* cache[key] = val for a key that is not in the cache
cache_setitem(cache, key, val) ==
    Append(IF Len(cache) >= cache_maxsize THEN cache_popitem(cache) ELSE cache,
           [key |-> key, val |-> val, uses |-> 1])

\* expr.replace(' ', '')
clean(expr) == SelectSeq(expr, LAMBDA c : c # " ")

\* Roller._parse_no_comment(expr): the cache after it and what the parser
\* or the cache gave
_parse_no_comment(cache, expr) ==
    IF cache_contains(cache, clean(expr))
    THEN Then(cache_getitem(cache, clean(expr)),
              LAMBDA G : [cache |-> G.cache, out |-> Accept(G.val, Len(expr) + 1)])
    ELSE Then(parser_parse(expr, "expr"),
              LAMBDA P : [cache |-> IF P.ok THEN cache_setitem(cache, clean(expr), P.val)
                                    ELSE cache,
                          out |-> P])

POSSIBLE_COMMENT_AMBIGUITIES == {"*"}

\* Roller._parse_with_comments(expr)
_parse_with_comments(expr) ==
    Then(parser_parse(expr, "commented_expr"),
         LAMBDA ui :
            IF ui.ok THEN ui
            ELSE IF \E op \in POSSIBLE_COMMENT_AMBIGUITIES :
                        ui.pos - 1 >= Len(op)
                            /\ SubSeq(expr, ui.pos - Len(op), ui.pos - 1) = op
            THEN LET op == CHOOSE op \in POSSIBLE_COMMENT_AMBIGUITIES :
                                ui.pos - 1 >= Len(op)
                                    /\ SubSeq(expr, ui.pos - Len(op), ui.pos - 1) = op
                     successful_fragment == SubSeq(expr, 1, ui.pos - 1 - Len(op))
                     force_comment == SubSeq(expr, Len(successful_fragment) + 1, Len(expr))
                 IN  Then(parser_parse(successful_fragment, "commented_expr"),
                          LAMBDA result :
                            IF ~result.ok THEN result
                            ELSE Accept([result.val EXCEPT !.comment = force_comment],
                                        Len(expr) + 1))
            ELSE ui)

\* Roller.parse(expr, allow_comments): the cache after it, the tree or the
\* RollSyntaxError with its position and the text found there
Roller_parse(cache, expr, allow_comments) ==
    Then(IF ~allow_comments THEN _parse_no_comment(cache, expr)
         ELSE [cache |-> cache, out |-> _parse_with_comments(expr)],
         LAMBDA R :
            [cache |-> R.cache,
             status |-> IF R.out.ok THEN "ok" ELSE "RollSyntaxError",
             val |-> R.out.val,
             pos |-> R.out.pos])

\* numbers as they are written
WrittenAtoms ==
    {"1", "12", "007", "d20", "1d20", "2d%", "(1)", "(1,)", "(1, 2)", "()", "( 1 , 2 , )",
     "0.5", "1.50", ".5", "3.", "0.0001", "0.00001", "1 [a]", "1d20 [a b]", "2 [a][b]", "(1d2, 3)"}

\* the written numbers that are dice, and the ones that are sets
WrittenDice == {"d20", "1d20", "2d%"}
WrittenSets == {"(1)", "(1,)", "(1, 2)", "()", "(1d2, 3)"}

WrittenNumbers ==
    WrittenAtoms
        \cup {d \o ops : d \in WrittenDice,
                         ops \in {"k1", "kh1pl1", "rr1", "mi1mi2", "e2ro<2", "ra1k1k2 [a]"}}
        \cup {s \o ops : s \in WrittenSets, ops \in {"k1", "k1k2k3", "kh1pl1", "p<2k>1"}}

\* texts of the grammar, and texts that are not
Texts ==
    WrittenNumbers
        \cup {u \o x : u \in {"-", "+", "--", "- "}, x \in WrittenAtoms}
        \cup {x \o op \o y : x \in WrittenAtoms, op \in {" + ", "*", " // ", "<=", " - -", " % "},
                             y \in {"1", "2d%", "(1, 2)", "0.5"}}
        \cup {"1 + 2 * 3", "1 * 2 + 3", "1 < 2 + 3 == 1", "(1 + 2) * 3", "1 - 2 - 3"}
        \cup {"", "1 +", "(1", "1d", "k1", "1 2", "1e-05", "**", "1d20k", "1 [a", "1)", "(1 ** 2)",
              "1d20 **bold**", "1d20 foo bar", "1 ** 2", "1 * * 2", "1 [a] foo", "( 1 *", "1 *"}

\* texts that differ in their spaces only, and texts that differ
CacheTexts == {"1d20", "1 d20", "1 [ab]", "1 [a b]", "1+1", "1 + 1", "12", "1 2", "(1"}

\* the Roller's parse cache
_parse_cache == IF ast.call = "Roller.parse" THEN ast.cache ELSE <<>>

\* Roller.parse(text, allow_comments=allow_comments)
ParseText(text, allow_comments) ==
    /\ ast.call \in {None, "Roller.parse"}
    /\ ast' = Then(Roller_parse(_parse_cache, text, allow_comments), LAMBDA R :
                  [call |-> "Roller.parse", text |-> text, allow_comments |-> allow_comments,
                   count |-> IF ast.call = None THEN 1 ELSE ast.count + 1,
                   before |-> _parse_cache, cache |-> R.cache,
                   status |-> R.status, val |-> R.val, pos |-> R.pos])
    /\ UNCHANGED <<ev, base, dice_tree, tape, calls, prev, rollers, threads>>

\* one parse() call on a fresh Roller
NextParse ==
    \E text \in Texts : \E allow_comments \in BOOLEAN :
        ast.call = None /\ ParseText(text, allow_comments)

ParseSpec == Init /\ [][NextParse]_vars

\* MaxParses parse() calls, one after the other, on the same Roller
NextCache ==
    \E text \in CacheTexts : \E allow_comments \in BOOLEAN :
        (ast.call = "Roller.parse" => ast.count < MaxParses)
            /\ ParseText(text, allow_comments)

CacheSpec == Init /\ [][NextCache]_vars

----------------------------------------------------------------------------
(* RollResult *)

\* the state in which roll() returned: what the draws made give
Returned == roll(dice_tree, base, tape)

\* a total that is computed once, when roll() returns
RollResult_total_cached == total(Returned.heap, Returned.val)

\* RollResult.total
RollResult_total == total(heap, dice_expr)

RECURSIVE _stringify(_, _)
\* SimpleStringifier: Stringifier._stringify and the _str_ methods
_stringify(h, node) ==
    LET strs(nodes) == [i \in 1..Len(nodes) |-> _stringify(h, nodes[i])]
        _str_ops(operations) ==
            join("", [i \in 1..Len(operations) |-> ast_SetOperator_str(operations[i])])
        annotated(inside) ==
            IF h[node].annotation \notin {None, ""}
            THEN inside \o " " \o h[node].annotation ELSE inside
    IN  annotated(
        CASE h[node].type = "Expression" ->
                _stringify(h, h[node].roll) \o " = " \o ToString(total(h, node))
          [] h[node].type = "Literal" ->
                join(" -> ", [i \in 1..Len(h[node].values) |-> ToString(h[node].values[i])])
                    \o (IF h[node].exploded THEN "!" ELSE "")
          [] h[node].type = "UnOp" -> h[node].op \o _stringify(h, h[node].value)
          [] h[node].type = "BinOp" ->
                _stringify(h, h[node].left) \o " " \o h[node].op \o " "
                    \o _stringify(h, h[node].right)
          [] h[node].type = "Parenthetical" ->
                "(" \o _stringify(h, h[node].value) \o ")" \o _str_ops(h[node].operations)
          [] h[node].type = "Set" ->
                "(" \o join(", ", strs(h[node].values))
                    \o (IF Len(h[node].values) = 1 THEN ",)" ELSE ")")
                    \o _str_ops(h[node].operations)
          [] h[node].type = "Dice" ->
                ToString(h[node].num) \o "d"
                    \o (IF h[node].size = Percent THEN "%" ELSE ToString(h[node].size))
                    \o _str_ops(h[node].operations)
                    \o " (" \o join(", ", strs(h[node].values)) \o ")"
          [] h[node].type = "Die" -> join(", ", strs(h[node].values)))

\* RollResult.result of roll(expr, stringifier=SimpleStringifier())
RollResult_result == _stringify(heap, dice_expr)

\* Number.children and its overrides
children(h, n) ==
    CASE h[n].type = "Expression" -> <<h[n].roll>>
      [] h[n].type \in {"UnOp", "Parenthetical"} -> <<h[n].value>>
      [] h[n].type = "BinOp" -> <<h[n].left, h[n].right>>
      [] h[n].type = "Set" -> h[n].values
      [] OTHER -> <<>>

RECURSIVE leftmost(_, _)
\* RollResult.crit: while left.children: left = left.children[0]
leftmost(h, left) ==
    IF children(h, left) # <<>> THEN leftmost(h, children(h, left)[1]) ELSE left

\* a crit that does not look at the number of kept dice
crit_of_any_number(h, expr) ==
    LET left == leftmost(h, expr)
    IN  IF h[left].type # "Dice" THEN "NONE"
        ELSE IF ~ (h[left].size = 20) THEN "NONE"
        ELSE IF total(h, left) = 1 THEN "FAIL"
        ELSE IF total(h, left) = 20 THEN "CRIT"
        ELSE "NONE"

\* RollResult.crit
crit(h, expr) ==
    LET left == leftmost(h, expr)
    IN  IF h[left].type # "Dice" THEN "NONE"
        ELSE IF ~ (Len(keptset(h, left)) = 1 /\ h[left].size = 20) THEN "NONE"
        ELSE IF total(h, left) = 1 THEN "FAIL"
        ELSE IF total(h, left) = 20 THEN "CRIT"
        ELSE "NONE"

RollResult_crit == crit(heap, dice_expr)

\* the exception that reading RollResult.total raises, None when it returns
RollResult_total_exc == total_exc(heap, dice_expr)

\* the call has ended: it returned or raised
Ended == pc \notin {"idle", "drawing"}

RECURSIVE DieLiterals(_, _)
\* the Literals held by the dice of the tree under node n
DieLiterals(h, n) ==
    CASE h[n].type = "Die" -> Len(h[n].values)
      [] h[n].type \in {"Set", "Dice"} ->
            SumSeq([i \in 1..Len(h[n].values) |-> DieLiterals(h, h[n].values[i])])
      [] h[n].type \in {"Parenthetical", "UnOp"} -> DieLiterals(h, h[n].value)
      [] h[n].type = "BinOp" -> DieLiterals(h, h[n].left) + DieLiterals(h, h[n].right)
      [] h[n].type = "Expression" -> DieLiterals(h, h[n].roll)
      [] OTHER -> 0

----------------------------------------------------------------------------
(* utils: simplify_expr_annotations and simplify_expr, on the nodes of a   *)
(* rolled tree                                                             *)

\* Number.set_child(index, value) and its overrides; index counts from 1
set_child(h, n, index, value) ==
    CASE h[n].type = "Expression" -> [h EXCEPT ![n].roll = value]
      [] h[n].type = "BinOp" ->
            IF children(h, n)[index] = h[n].left
            THEN [h EXCEPT ![n].left = value]
            ELSE [h EXCEPT ![n].right = value]
      [] h[n].type = "Set" -> [h EXCEPT ![n].values[index] = value]
      [] OTHER -> [h EXCEPT ![n].value = value]

RECURSIVE extend(_, _)
\* possible_types.extend(t for t in types if t not in possible_types)
extend(possible_types, types) ==
    IF types = <<>> THEN possible_types
    ELSE extend(IF Head(types) \in Range(possible_types) THEN possible_types
                ELSE Append(possible_types, Head(types)),
                Tail(types))

\* the operators whose right operand takes no annotation from the ambiguity
MULTIPLICATIVE == {"*", "/", "//", "%"}

RECURSIVE clear_loop(_, _)
\* for child in node.children: child.annotation = None
clear_loop(h, the_children) ==
    IF the_children = <<>> THEN h
    ELSE clear_loop([h EXCEPT ![Head(the_children)].annotation = None],
                    Tail(the_children))

RECURSIVE inherit_loop(_, _, _, _, _, _)
\* the ambiguous case: the children that give no annotation take the
\* leftmost or the rightmost one
inherit_loop(h, node, ambig_inherit, possible_types, child_possibilities, i) ==
    IF i > Len(children(h, node)) THEN h
    ELSE Then(IF child_possibilities[i] # <<>> THEN h
              ELSE IF h[node].type = "BinOp" /\ h[node].op \in MULTIPLICATIVE /\ i > 1
              THEN h
              ELSE IF ambig_inherit = "left"
              THEN [h EXCEPT ![children(h, node)[i]].annotation = Head(possible_types)]
              ELSE [h EXCEPT ![children(h, node)[i]].annotation = Last(possible_types)],
              LAMBDA h2 : inherit_loop(h2, node, ambig_inherit, possible_types,
                                       child_possibilities, i + 1))

RECURSIVE annotations_do_simplify(_, _, _)
RECURSIVE annotations_children_loop(_, _, _, _, _, _)

\* simplify_expr_annotations.do_simplify(node): the heap after it and, in
\* val, the tuple of possible types it returns
annotations_do_simplify(h, node, ambig_inherit) ==
    Then(annotations_children_loop(h, node, ambig_inherit, 1, <<>>, <<>>),
         LAMBDA C :
            Then(IF C.heap[node].annotation # None
                 THEN Append(C.types, C.heap[node].annotation) ELSE C.types,
                 LAMBDA possible_types :
                    [val |-> possible_types,
                     heap |->
                        IF Len(possible_types) = 1
                        THEN clear_loop([C.heap EXCEPT ![node].annotation = possible_types[1]],
                                        children(C.heap, node))
                        ELSE IF Len(possible_types) > 0 /\ ambig_inherit # None
                        THEN inherit_loop(C.heap, node, ambig_inherit, possible_types,
                                          C.poss, 1)
                        ELSE C.heap]))

\* for child in node.children: child_possibilities[child] = do_simplify(child)
annotations_children_loop(h, node, ambig_inherit, i, types, poss) ==
    IF i > Len(children(h, node)) THEN [heap |-> h, types |-> types, poss |-> poss]
    ELSE Then(annotations_do_simplify(h, children(h, node)[i], ambig_inherit),
              LAMBDA R : annotations_children_loop(R.heap, node, ambig_inherit, i + 1,
                                                   extend(types, R.val),
                                                   Append(poss, R.val)))

\* utils.simplify_expr_annotations(expr, ambig_inherit): the heap after it
simplify_expr_annotations(h, expr, ambig_inherit) ==
    annotations_do_simplify(h, expr, ambig_inherit).heap

\* expression.Literal(value, annotation=annotation)
AnnotatedLiteral(value, annotation) == [Literal(value) EXCEPT !.annotation = annotation]

RECURSIVE simplify_do_simplify(_, _, _)
RECURSIVE simplify_pass1(_, _, _, _)
RECURSIVE simplify_pass2(_, _, _, _, _)

\* simplify_expr.do_simplify(node, first): the heap after it, the
\* replacement in val and whether the branch had a replacement in had
simplify_do_simplify(h, node, first) ==
    IF h[node].annotation \notin {None, ""}
    THEN [heap |-> Append(h, AnnotatedLiteral(total(h, node), h[node].annotation)),
          val |-> Len(h) + 1, had |-> TRUE]
    ELSE Then(simplify_pass1(h, node, 1, {}),
              LAMBDA P :
                [heap |-> simplify_pass2(P.heap, node, 1, P.had_replacement, first),
                 val |-> node, had |-> P.had_replacement # {}])

\* pass 1: recursively replace branches with annotations
simplify_pass1(h, node, i, had_replacement) ==
    IF i > Len(children(h, node)) THEN [heap |-> h, had_replacement |-> had_replacement]
    ELSE Then(simplify_do_simplify(h, children(h, node)[i], FALSE),
              LAMBDA R :
                simplify_pass1(IF R.val # children(h, node)[i]
                               THEN set_child(R.heap, node, i, R.val) ELSE R.heap,
                               node, i + 1,
                               IF R.had THEN had_replacement \cup {i} ELSE had_replacement))

\* pass 2: replace no-annotation branches
simplify_pass2(h, node, i, had_replacement, first) ==
    IF i > Len(children(h, node)) THEN h
    ELSE simplify_pass2(
            IF i \notin had_replacement /\ (had_replacement # {} \/ first)
            THEN set_child(Append(h, Literal(total(h, children(h, node)[i]))),
                           node, i, Len(h) + 1)
            ELSE h,
            node, i + 1, had_replacement, first)

\* a simplify_expr that replaces the annotated branches only
simplify_expr_pass1_only(h, expr, ambig_inherit) ==
    Then(simplify_expr_annotations(h, h[expr].roll, ambig_inherit),
         LAMBDA a : simplify_pass1(a, expr, 1, {}).heap)

\* utils.simplify_expr(expr, ambig_inherit=...): the heap after it
simplify_expr(h, expr, ambig_inherit) ==
    Then(simplify_expr_annotations(h, h[expr].roll, ambig_inherit),
         LAMBDA a : simplify_do_simplify(a, expr, TRUE).heap)

\* value [annotation], the number itself when there is no annotation
Annotated(value, annotation) ==
    IF annotation = None THEN value ELSE ast_AnnotatedNumber(value, <<annotation>>)

Tags == {None, "[a]", "[b]"}

\* 1, 1d2, (2) and (2 [a]), with and without an annotation
AnnotatedAtoms ==
    {Annotated(t, a) :
        t \in {ast_Literal(1), ast_Dice(1, MaxSize)}
              \cup {ast_Parenthetical(Annotated(ast_Literal(2), b)) : b \in {None, "[a]"}},
        a \in Tags}

\* x + y + 3 and x + y * 3
AnnotatedSums ==
    {ast_BinOp(ast_BinOp(x, "+", y), op, Annotated(ast_Literal(3), a)) :
        x \in AnnotatedAtoms, y \in AnnotatedAtoms, op \in {"+", "*"}, a \in Tags}

\* (x, y)kh1
AnnotatedSets ==
    {ast_OperatedSet(ast_NumberSet(<<x, y>>),
                     <<ast_SetOperator("k", <<ast_SetSelector("h", 1)>>)>>) :
        x \in AnnotatedAtoms, y \in AnnotatedAtoms}

\* 1 [a] + 2 + 3 [b] + 4
TwoTagsInFour ==
    ast_BinOp(ast_BinOp(ast_BinOp(Annotated(ast_Literal(1), "[a]"), "+", ast_Literal(2)),
                        "+", Annotated(ast_Literal(3), "[b]")),
              "+", ast_Literal(4))

\* 1 [a] + 2 + 3 [a] + 4
OneTagInFour ==
    ast_BinOp(ast_BinOp(ast_BinOp(Annotated(ast_Literal(1), "[a]"), "+", ast_Literal(2)),
                        "+", Annotated(ast_Literal(3), "[a]")),
              "+", ast_Literal(4))

\* 1 [a] + 2 + 3
OneTagInThree ==
    ast_BinOp(ast_BinOp(Annotated(ast_Literal(1), "[a]"), "+", ast_Literal(2)),
              "+", ast_Literal(3))

\* 1 + 2 + 3 + 4
NoTagInFour == ast_BinOp(OnePlusTwoPlusThree, "+", ast_Literal(4))

AnnotatedInputs ==
    {Expr(t) : t \in AnnotatedAtoms \cup AnnotatedSums \cup AnnotatedSets
                     \cup {TwoTagsInFour, OneTagInFour, OneTagInThree, NoTagInFour}}

\* utils.simplify_expr_annotations(result.expr.roll, ambig_inherit)
SimplifyAnnotations(ambig_inherit) ==
    /\ pc = "returned"
    /\ ast.call = None
    /\ ev' = [ev EXCEPT !.heap = simplify_expr_annotations(heap, heap[dice_expr].roll,
                                                            ambig_inherit)]
    /\ ast' = [call |-> "simplify_expr_annotations", before |-> heap,
               ambig_inherit |-> ambig_inherit]
    /\ UNCHANGED <<base, dice_tree, tape, calls, prev, rollers, threads>>

\* utils.simplify_expr(result.expr, ambig_inherit=ambig_inherit)
Simplify(ambig_inherit) ==
    /\ pc = "returned"
    /\ ast.call = None
    /\ ev' = [ev EXCEPT !.heap = simplify_expr(heap, dice_expr, ambig_inherit)]
    /\ ast' = [call |-> "simplify_expr", before |-> heap,
               ambig_inherit |-> ambig_inherit]
    /\ UNCHANGED <<base, dice_tree, tape, calls, prev, rollers, threads>>

\* one roll() call, then one utility on the tree of its result
NextUtil ==
    \/ \E expr \in AnnotatedInputs : calls = 0 /\ Roll(expr)
    \/ \E r \in randrange(pending) : Draw(r)
    \/ \E ambig_inherit \in {None, "left", "right"} : SimplifyAnnotations(ambig_inherit)
    \/ \E ambig_inherit \in {None, "left", "right"} : Simplify(ambig_inherit)

UtilSpec == Init /\ [][NextUtil]_vars

----------------------------------------------------------------------------
(* C1: while a draw is awaited the counter is one more than the values     *)
(* drawn so far and within max_rolls; TooManyRolls is raised exactly at    *)
(* the draw that takes the counter to max_rolls + 1; a call that returns   *)
(* made at most max_rolls draws and context.rolls is the number of die     *)
(* Literals of its tree.  max_rolls d1 returns, (max_rolls + 1) d1 and     *)
(* the sum of two terms with max_rolls + 1 dice raise TooManyRolls.        *)
C1_EveryDrawCounted ==
    /\ pc = "drawing" => rolls = Len(tape) + 1 /\ rolls <= max_rolls
    /\ pc = "TooManyRolls" => rolls = max_rolls + 1 /\ Len(tape) = max_rolls
    /\ pc = "returned" =>
          /\ rolls = Len(tape)
          /\ rolls <= max_rolls
          /\ rolls = DieLiterals(heap, dice_expr)
    /\ Ended /\ dice_tree = Expr(ast_Dice(max_rolls, 1)) => pc = "returned"
    /\ Ended /\ dice_tree = Expr(ast_Dice(max_rolls + 1, 1)) => pc = "TooManyRolls"
    /\ Ended /\ dice_tree = Expr(OverBudgetSum) => pc = "TooManyRolls"

C1_Witness ==
    /\ pc = "TooManyRolls"
    /\ dice_tree = Expr(OverBudgetSum)
    /\ rolls = max_rolls + 1

(* C2: every roll() call ends, returning or raising; an rr or e operator   *)
(* that was applied with a non-empty selection has drawn at least one      *)
(* counted die.                                                            *)
C2_RollTerminates ==
    /\ [](\A i \in 1..Len(oplog) :
            (/\ oplog[i].self.op \in {"rr", "e"}
             /\ select(oplog[i].before, oplog[i].self, oplog[i].target, NoLimit) # {})
            => DieLiterals(oplog[i].after, oplog[i].target)
                  > DieLiterals(oplog[i].before, oplog[i].target))
    /\ (pc = "drawing") ~> Ended

C2_Witness ==
    /\ pc = "TooManyRolls"
    /\ dice_tree.roll.type = "ast.OperatedDice"
    /\ dice_tree.roll.value.num = 1
    /\ dice_tree.roll.operations[1].op \in {"rr", "e"}

(* C3: in a sequence of roll() calls on one Roller the counter is 0 when   *)
(* a call starts evaluating, so the counter of a running call counts the   *)
(* draws of that call alone, and NdS raises TooManyRolls exactly when      *)
(* N > max_rolls, whatever the earlier calls left behind.                  *)
C3_BudgetPerCall ==
    /\ calls >= 1 => base = 0
    /\ pc = "drawing" => rolls = Len(tape) + 1
    /\ pc = "returned" => rolls = Len(tape)
    /\ Ended => (pc = "TooManyRolls" <=> dice_tree.roll.num > max_rolls)
    /\ Ended => (pc = "returned" <=> dice_tree.roll.num <= max_rolls)

C3_Witness ==
    /\ calls = MaxCalls
    /\ prev = "TooManyRolls"
    /\ pc = "returned"
    /\ Len(tape) = max_rolls

(* C4: NdS with N >= 1, S >= 1 totals within N..N*S; Nd% totals a multiple *)
(* of 10 within 0..90*N; NdSkhK with 1 <= K <= N totals within K..K*S;     *)
(* (1d4, 2+2, 3d6kl1)kh1 totals within 4..6.                               *)
C4_TotalRanges ==
    pc = "returned" =>
        LET t == dice_tree.roll
            tot == RollResult_total
        IN /\ (t.type = "ast.Dice" /\ t.num >= 1 /\ t.size >= 1)
                => tot \in t.num..(t.num * t.size)
           /\ (t.type = "ast.Dice" /\ t.num >= 1 /\ t.size = Percent)
                => tot % 10 = 0 /\ tot \in 0..(90 * t.num)
           /\ (/\ t.type = "ast.OperatedDice"
               /\ Len(t.operations) = 1
               /\ t.operations[1].op = "k"
               /\ Len(t.operations[1].sels) = 1
               /\ t.operations[1].sels[1].cat = "h"
               /\ t.operations[1].sels[1].num \in 1..t.value.num)
                => tot \in t.operations[1].sels[1].num
                            ..(t.operations[1].sels[1].num * t.value.size)
           /\ t = MixedSet => tot \in 4..6

C4_Witness ==
    /\ pc = "returned"
    /\ dice_tree = Expr(MixedSet)
    /\ RollResult_total = 6
    /\ ~heap[heap[heap[dice_expr].roll].values[1]].kept

(* C5: an applied k leaves kept exactly the kept elements that were        *)
(* selected before it ran, an applied p exactly those that were not; the   *)
(* elements of the target and every node's fields other than kept are as   *)
(* before, and the target totals the sum of the totals of its elements, a  *)
(* dropped one counting 0.  (1,2,3,4,5)k3 = 3, k>3 = 9, p3 = 12,           *)
(* ph1pl1 = 9 and (1)k2 = 0.                                               *)
C5_KeepDrop ==
    /\ \A i \in 1..Len(oplog) :
          LET b == oplog[i].before
              a == oplog[i].after
              t == oplog[i].target
              K == Range(keptset(b, t))
              S == select(b, oplog[i].self, t, NoLimit)
          IN oplog[i].self.op \in {"k", "p"} =>
                /\ Range(keptset(a, t)) =
                      (IF oplog[i].self.op = "k" THEN K \cap S ELSE K \ S)
                /\ set(a, t) = set(b, t)
                /\ a = [n \in 1..Len(b) |-> [b[n] EXCEPT !.kept = a[n].kept]]
                /\ total(a, t) = SumSeq(totals(a, set(a, t)))
                /\ \A n \in Range(set(a, t)) :
                      total(a, n) = IF a[n].kept THEN total(b, n) ELSE 0
    /\ pc = "returned" =>
          /\ dice_tree = Expr(Keep3) => RollResult_total = 3
          /\ dice_tree = Expr(KeepOver3) => RollResult_total = 9
          /\ dice_tree = Expr(Drop3) => RollResult_total = 12
          /\ dice_tree = Expr(DropEnds) => RollResult_total = 9
          /\ dice_tree = Expr(KeepParen) => RollResult_total = 0

C5_Witness ==
    /\ pc = "returned"
    /\ dice_tree = Expr(DropEnds)
    /\ Len(oplog) = 1
    /\ Len(oplog[1].self.sels) = 2
    /\ Cardinality(Range(keptset(heap, oplog[1].target))) = 3

\* the nodes an operator can be applied to
Targets == {t \in 1..Len(heap) : heap[t].type \in {"Set", "Dice", "Parenthetical"}}

\* the position of element x among the kept elements of target t
Position(t, x) == CHOOSE i \in 1..Len(keptset(heap, t)) : keptset(heap, t)[i] = x

(* C6: whatever the target and the selector, a selection that returns      *)
(* (no element's total raises) is made of                                  *)
(* kept elements of the target: for <, > and no category the kept          *)
(* elements whose total is below, above and equal to n; for l and h as     *)
(* many elements as n allows, each one lower (higher) in total than every  *)
(* kept element left out, or equal to it and earlier in the target.        *)
(* Elements are told apart by identity, not by value.                      *)
C6_Selectors ==
    \A t \in Targets : \A cat \in Cats : \A n \in 0..MaxSel :
        select_exc(heap, SetOperator("k", <<SetSelector(cat, n)>>), t) = None =>
        LET ks == Range(keptset(heap, t))
            R == SetSelector_select(heap, SetSelector(cat, n), t, NoLimit)
        IN /\ R \subseteq ks
           /\ cat = "<" => R = {x \in ks : total(heap, x) < n}
           /\ cat = ">" => R = {x \in ks : total(heap, x) > n}
           /\ cat = None => R = {x \in ks : total(heap, x) = n}
           /\ cat \in {"l", "h"} => Cardinality(R) = Min(n, Len(keptset(heap, t)))
           /\ cat = "l" =>
                \A x \in R : \A y \in ks \ R :
                    \/ total(heap, x) < total(heap, y)
                    \/ total(heap, x) = total(heap, y) /\ Position(t, x) < Position(t, y)
           /\ cat = "h" =>
                \A x \in R : \A y \in ks \ R :
                    \/ total(heap, x) > total(heap, y)
                    \/ total(heap, x) = total(heap, y) /\ Position(t, x) < Position(t, y)

\* two dice show the same value: h1 and l1 both select the first one
C6_Witness ==
    /\ pc = "returned"
    /\ \E t \in Targets :
          /\ heap[t].type = "Dice"
          /\ Len(keptset(heap, t)) = 2
          /\ total(heap, heap[t].values[1]) = total(heap, heap[t].values[2])
          /\ SetSelector_select(heap, SetSelector("h", 1), t, NoLimit)
                = {heap[t].values[1]}
          /\ SetSelector_select(heap, SetSelector("l", 1), t, NoLimit)
                = {heap[t].values[1]}

\* NdS followed by one operator op with one selector
OneOp(t, op) ==
    /\ t.type = "ast.OperatedDice"
    /\ Len(t.operations) = 1
    /\ t.operations[1].op = op
    /\ Len(t.operations[1].sels) = 1
    /\ t.value.num >= 1

\* the selector matches every value a die of this size can show
MatchesAll(sel, size) ==
    \/ sel.cat = "<" /\ sel.num > size
    \/ sel.cat = ">" /\ sel.num < 1
    \/ sel.cat = None /\ sel.num = 1 /\ size = 1

(* C7: after an rr that returned no kept die of the target is selected;    *)
(* the target holds the same dice as before, as many as before; 1dS rr<S   *)
(* totals S and 1dS rr>1 totals 1 when they return; an rr whose selector   *)
(* matches whatever is drawn (rr1 on d1, rr<n with n above the size, rrl1, *)
(* rrh1) ends with TooManyRolls.                                           *)
C7_RerollUntilNoMatch ==
    /\ \A i \in 1..Len(oplog) :
          oplog[i].self.op = "rr" =>
            /\ select(oplog[i].after, oplog[i].self, oplog[i].target, NoLimit) = {}
            /\ oplog[i].after[oplog[i].target].values
                  = oplog[i].before[oplog[i].target].values
            /\ oplog[i].after[oplog[i].target].num
                  = oplog[i].before[oplog[i].target].num
    /\ (pc = "returned" /\ OneOp(dice_tree.roll, "rr") /\ dice_tree.roll.value.num = 1) =>
          /\ dice_tree.roll.operations[1].sels[1]
                = ast_SetSelector("<", dice_tree.roll.value.size)
                => RollResult_total = dice_tree.roll.value.size
          /\ dice_tree.roll.operations[1].sels[1] = ast_SetSelector(">", 1)
                => RollResult_total = 1
    /\ (/\ Ended
        /\ OneOp(dice_tree.roll, "rr")
        /\ \/ MatchesAll(dice_tree.roll.operations[1].sels[1], dice_tree.roll.value.size)
           \/ /\ dice_tree.roll.operations[1].sels[1].cat \in {"l", "h"}
              /\ dice_tree.roll.operations[1].sels[1].num >= 1)
          => pc = "TooManyRolls"

\* 1dS rr<S returned after at least one reroll
C7_Witness ==
    /\ pc = "returned"
    /\ OneOp(dice_tree.roll, "rr")
    /\ dice_tree.roll.value = ast_Dice(1, MaxSize)
    /\ dice_tree.roll.operations[1].sels[1] = ast_SetSelector("<", MaxSize)
    /\ Len(tape) >= 2
    /\ RollResult_total = MaxSize

\* the last Literal of die d is marked exploded
Exploded(h, d) == h[Last(h[d].values)].exploded

(* C8: in one application of e no die is exploded twice; the target keeps  *)
(* the dice it had and gains one new die, holding one Literal, for every   *)
(* explosion; when e returns every kept die that is selected is marked     *)
(* exploded and num is as before; an e whose selector matches whatever is  *)
(* drawn ends with TooManyRolls.                                           *)
C8_ExplodeEachOnce ==
    /\ \A i \in 1..Len(oplog) :
          LET b == oplog[i].before
              a == oplog[i].after
              t == oplog[i].target
              X == oplog[i].exploded
          IN oplog[i].self.op = "e" =>
                /\ Cardinality(Range(X)) = Len(X)
                /\ Len(a[t].values) = Len(b[t].values) + Len(X)
                /\ SubSeq(a[t].values, 1, Len(b[t].values)) = b[t].values
                /\ \A k \in (Len(b[t].values) + 1)..Len(a[t].values) :
                      /\ a[t].values[k] > Len(b)
                      /\ a[a[t].values[k]].type = "Die"
                      /\ Len(a[a[t].values[k]].values) = 1
                /\ \A d \in Range(X) : Exploded(a, d)
                /\ \A d \in select(a, oplog[i].self, t, NoLimit) :
                      d \in Range(X) /\ Exploded(a, d)
                /\ a[t].num = b[t].num
    /\ (/\ Ended
        /\ OneOp(dice_tree.roll, "e")
        /\ MatchesAll(dice_tree.roll.operations[1].sels[1], dice_tree.roll.value.size))
          => pc = "TooManyRolls"

\* an e returned after a die it added exploded in its turn
C8_Witness ==
    /\ pc = "returned"
    /\ OneOp(dice_tree.roll, "e")
    /\ Len(oplog[1].exploded) = 2
    /\ oplog[1].exploded[2] > Len(oplog[1].before)
    /\ Len(heap[oplog[1].target].values) = heap[oplog[1].target].num + 2

\* the selectors of operator self that select something of target t
Matching(h, self, t) ==
    {j \in 1..Len(self.sels) : SetSelector_select(h, self.sels[j], t, NoLimit) # {}}

(* C9, as the specification states it: an ra whose first selector matches  *)
(* no kept die explodes nothing.                                           *)
C9_FirstSelectorOnly ==
    \A i \in 1..Len(oplog) :
        (/\ oplog[i].self.op = "ra"
         /\ 1 \notin Matching(oplog[i].before, oplog[i].self, oplog[i].target))
        => oplog[i].exploded = <<>>

(* C9: select(target, max) holds at most max elements; an applied ra       *)
(* explodes at most one die and adds one new die exactly when it does;     *)
(* it explodes nothing exactly when no selector of the operator matches a  *)
(* kept die, and otherwise the die it explodes is one selected by the      *)
(* first of the selectors that match.  1d1ra1 = 2 and 2d1ra1 = 3.          *)
C9_ExplodeOnce ==
    /\ \A i \in 1..Len(oplog) :
          LET b == oplog[i].before
              a == oplog[i].after
              t == oplog[i].target
              X == oplog[i].exploded
              M == Matching(b, oplog[i].self, t)
          IN /\ \A m \in 0..MaxSel :
                    Cardinality(select(b, oplog[i].self, t, m)) <= m
             /\ oplog[i].self.op = "ra" =>
                    /\ Len(X) <= 1
                    /\ Len(a[t].values) = Len(b[t].values) + Len(X)
                    /\ SubSeq(a[t].values, 1, Len(b[t].values)) = b[t].values
                    /\ Cardinality({d \in Range(b[t].values) :
                                        Exploded(a, d) /\ ~Exploded(b, d)}) <= 1
                    /\ X = <<>> <=> M = {}
                    /\ X # <<>> =>
                          /\ Exploded(a, X[1])
                          /\ X[1] \in SetSelector_select(b,
                                        oplog[i].self.sels[CHOOSE j \in M :
                                                            \A k \in M : j <= k],
                                        t, NoLimit)
    /\ (pc = "returned" /\ OneOp(dice_tree.roll, "ra")
            /\ dice_tree.roll.value.size = 1
            /\ dice_tree.roll.operations[1].sels[1] = ast_SetSelector(None, 1))
          => RollResult_total = dice_tree.roll.value.num + 1

\* the first selector of an ra matched nothing, the second did: a die exploded
C9_Witness ==
    /\ pc = "returned"
    /\ Len(oplog) = 1
    /\ oplog[1].self.op = "ra"
    /\ Len(oplog[1].self.sels) = 2
    /\ Matching(oplog[1].before, oplog[1].self, oplog[1].target) = {2}
    /\ Len(oplog[1].exploded) = 1
    /\ Len(heap[oplog[1].target].values) = heap[oplog[1].target].num + 1

(* C10: an applied ro leaves the target with the dice it had; every die    *)
(* that was selected before it ran has its former last Literal dropped     *)
(* and one new Literal after it, whether or not the new value is selected  *)
(* again; every other die and its Literals are as before.  1d1ro1 totals   *)
(* 1 and its die holds two Literals.                                       *)
C10_RerollOnce ==
    /\ \A i \in 1..Len(oplog) :
          LET b == oplog[i].before
              a == oplog[i].after
              t == oplog[i].target
              S == select(b, oplog[i].self, t, NoLimit)
          IN oplog[i].self.op = "ro" =>
                /\ a[t].values = b[t].values
                /\ a[t].num = b[t].num
                /\ \A d \in Range(b[t].values) :
                      IF d \in S
                      THEN /\ Len(a[d].values) = Len(b[d].values) + 1
                           /\ SubSeq(a[d].values, 1, Len(b[d].values)) = b[d].values
                           /\ Last(a[d].values) > Len(b)
                           /\ a[Last(a[d].values)].kept
                           /\ ~a[Last(b[d].values)].kept
                           /\ \A k \in 1..Len(b[d].values) :
                                 a[b[d].values[k]].values = b[b[d].values[k]].values
                      ELSE /\ a[d] = b[d]
                           /\ \A k \in 1..Len(b[d].values) :
                                 a[b[d].values[k]] = b[b[d].values[k]]
                /\ Len(a) = Len(b) + Cardinality(S)
    /\ (Ended /\ dice_tree = Expr(ast_OperatedDice(ast_Dice(1, 1),
                    <<ast_SetOperator("ro", <<ast_SetSelector(None, 1)>>)>>)))
          => /\ pc = "returned"
             /\ RollResult_total = 1
             /\ Len(heap[heap[oplog[1].target].values[1]].values) = 2

\* ro rerolled one die of two, and the new value is selected again
C10_Witness ==
    /\ pc = "returned"
    /\ Len(oplog) = 1
    /\ oplog[1].self.op = "ro"
    /\ Len(heap[oplog[1].target].values) = 2
    /\ Cardinality(select(oplog[1].before, oplog[1].self, oplog[1].target, NoLimit)) = 1
    /\ select(oplog[1].after, oplog[1].self, oplog[1].target, NoLimit)
          = select(oplog[1].before, oplog[1].self, oplog[1].target, NoLimit)

\* the last selector of the first operator of the tree has a category
BadImmediate(t) ==
    /\ t.type = "ast.OperatedDice"
    /\ t.operations[1].op \in IMMEDIATE
    /\ Last(t.operations[1].sels).cat # None

(* C11: an applied mi n (ma n) appends n to the values of the last Literal *)
(* of every kept die whose number was below (above) n, the values it had   *)
(* staying before it; every other node is as before and no node is made,   *)
(* so no draw; afterwards every kept die has a number of at least (at      *)
(* most) n.  NdS mi n with n >= S totals N * n, NdS ma 0 totals 0.  An mi  *)
(* or ma whose last selector has a category ends with RollValueError and   *)
(* no Literal holds a second value.                                        *)
C11_MinimumMaximum ==
    /\ \A i \in 1..Len(oplog) :
          LET b == oplog[i].before
              a == oplog[i].after
              t == oplog[i].target
              op == oplog[i].self.op
              n == Last(oplog[i].self.sels).num
              forced == {Last(b[d].values) : d \in
                          {d \in Range(keptset(b, t)) :
                              IF op = "mi" THEN number(b, d) < n ELSE number(b, d) > n}}
          IN op \in IMMEDIATE =>
                /\ Last(oplog[i].self.sels).cat = None
                /\ Len(a) = Len(b)
                /\ \A x \in 1..Len(b) :
                      IF x \in forced THEN a[x] = [b[x] EXCEPT !.values = Append(@, n)]
                                      ELSE a[x] = b[x]
                /\ \A d \in Range(keptset(a, t)) :
                      IF op = "mi" THEN number(a, d) >= n ELSE number(a, d) <= n
    /\ (pc = "returned" /\ dice_tree.roll \in ImmediateDice1
            /\ ~BadImmediate(dice_tree.roll)) =>
          /\ (/\ dice_tree.roll.operations[1].op = "mi"
              /\ dice_tree.roll.operations[1].sels[1].num >= dice_tree.roll.value.size)
                => RollResult_total = dice_tree.roll.value.num
                                        * dice_tree.roll.operations[1].sels[1].num
          /\ (/\ dice_tree.roll.operations[1].op = "ma"
              /\ dice_tree.roll.operations[1].sels[1].num = 0)
                => RollResult_total = 0
          /\ rolls = dice_tree.roll.value.num
    /\ (Ended /\ BadImmediate(dice_tree.roll)) =>
          /\ pc = "RollValueError"
          /\ \A x \in 1..Len(heap) : heap[x].type = "Literal" => Len(heap[x].values) = 1
    /\ (Ended /\ dice_tree.roll \in ImmediateDice1 \cup ImmediateDice3
            /\ ~BadImmediate(dice_tree.roll)) => pc = "returned"

\* mi 3 on 2d2 after the lowest die was dropped: only the kept die is forced
C11_Witness ==
    /\ pc = "returned"
    /\ dice_tree.roll \in ImmediateDice2
    /\ Len(oplog) = 2
    /\ oplog[1].self.op = "p"
    /\ oplog[2].self.op = "mi"
    /\ RollResult_total = 3
    /\ \E d \in Range(heap[oplog[2].target].values) :
          /\ ~heap[d].kept
          /\ Len(heap[Last(heap[d].values)].values) = 1
    /\ \E d \in Range(heap[oplog[2].target].values) :
          /\ heap[d].kept
          /\ Len(heap[Last(heap[d].values)].values) = 2

\* the (op, selector) pairs of a list of operators, in order
RECURSIVE Flat(_)
Flat(operations) ==
    IF operations = <<>> THEN <<>>
    ELSE [j \in 1..Len(Head(operations).sels) |->
              <<Head(operations).op, Head(operations).sels[j]>>]
            \o Flat(Tail(operations))

\* the mi and ma operators of a list, in order
Immediates(operations) == SelectSeq(operations, LAMBDA o : o.op \in IMMEDIATE)

\* heap h without the record of the operators applied to node t
Unoperated(h, t) == [h EXCEPT ![t].operations = <<>>]

(* C12: the operators of a constructed OperatedSet / OperatedDice hold the *)
(* written operators' selectors in the written order; two neighbours have  *)
(* the same op only when it is mi or ma, and every mi and ma is as it was   *)
(* written.  Rolling applies the operators in list order, each on the heap *)
(* the one before it left, a merged k keeping every kept element that any  *)
(* of its selectors selects.  (1, 2, 3)k1k2 = 3, (1, 2, 3, 4, 5)p1p2 = 12. *)
C12_OperatorsMerged ==
    ast.call \in {"OperatedDice", "OperatedSet"} =>
        LET m == ast.tree.operations
        IN /\ Flat(m) = Flat(ast.written)
           /\ \A i \in 1..(Len(m) - 1) : m[i].op = m[i + 1].op => m[i].op \in IMMEDIATE
           /\ Immediates(m) = Immediates(ast.written)
           /\ ast.result # NotRolled =>
                LET log == ast.result.log
                IN /\ ast.result.status = "ok"
                   /\ Len(log) = Len(m)
                   /\ \A i \in 1..Len(m) : log[i].self = SetOperator_from_ast(m[i])
                   /\ \A i \in 1..(Len(m) - 1) :
                         Unoperated(log[i + 1].before, log[i].target)
                            = Unoperated(log[i].after, log[i].target)
                   /\ \A i \in 1..Len(m) :
                         log[i].self.op = "k" =>
                            Range(keptset(log[i].after, log[i].target))
                              = {x \in Range(keptset(log[i].before, log[i].target)) :
                                   \E j \in 1..Len(log[i].self.sels) :
                                      x \in SetSelector_select(log[i].before,
                                                log[i].self.sels[j], log[i].target, NoLimit)}
                   /\ (/\ ast.tree.value = OneToThree
                       /\ ast.written = <<ast_SetOperator("k", <<ast_SetSelector(None, 1)>>),
                                          ast_SetOperator("k", <<ast_SetSelector(None, 2)>>)>>)
                         => total(ast.result.heap, ast.result.val) = 3
                   /\ (/\ ast.tree.value = OneToFive
                       /\ ast.written = <<ast_SetOperator("p", <<ast_SetSelector(None, 1)>>),
                                          ast_SetOperator("p", <<ast_SetSelector(None, 2)>>)>>)
                         => total(ast.result.heap, ast.result.val) = 12

\* k1 k2 p3 was written and rolled as a k with two selectors and a p
C12_Witness ==
    /\ ast.call = "OperatedSet"
    /\ ast.result # NotRolled
    /\ Len(ast.written) = 3
    /\ Len(ast.tree.operations) = 2
    /\ Len(ast.tree.operations[1].sels) = 2
    /\ Len(ast.result.log) = 2
    /\ total(ast.result.heap, ast.result.val) = 3

\* the BinOp nodes of heap h that divide
DivisionNodes(h) == {n \in 1..Len(h) : h[n].type = "BinOp" /\ h[n].op \in DIVISIONS}

(* C13: reading the number of a /, // or % node whose operands are read    *)
(* without an exception raises RollValueError when the right operand       *)
(* totals 0, and returns otherwise; no read and no roll() ends with        *)
(* ZeroDivisionError.  10 / 0, 10 // 0 and 10 % 0 are rolled and their     *)
(* total is read with RollValueError.                                      *)
C13_DivisionByZero ==
    /\ pc # "ZeroDivisionError"
    /\ \A n \in DivisionNodes(heap) :
          /\ number_exc(heap, n) # "ZeroDivisionError"
          /\ (/\ total_exc(heap, heap[n].left) = None
              /\ total_exc(heap, heap[n].right) = None)
                => (number_exc(heap, n) = "RollValueError"
                        <=> total(heap, heap[n].right) = 0)
    /\ pc = "returned" => RollResult_total_exc # "ZeroDivisionError"
    /\ (/\ Ended
        /\ dice_tree.roll \in {ast_BinOp(ast_Literal(10), o, ast_Literal(0)) :
                                  o \in DIVISIONS})
          => pc = "returned" /\ RollResult_total_exc = "RollValueError"

\* ten is divided by a die that was rolled and dropped
C13_Witness ==
    /\ pc = "returned"
    /\ dice_tree.roll \in Divisions
    /\ Len(tape) = 1
    /\ Len(oplog) = 1
    /\ oplog[1].self.op = "p"
    /\ RollResult_total_exc = "RollValueError"

(* C14: a roll of NdS with S < 1 and N >= 1 ends with RollValueError, no   *)
(* roll counted and no value drawn, also when N is over the budget; a roll *)
(* of 0dS returns the total 0 with no roll counted, whatever S is; in      *)
(* 1d2 + 1d0 the one roll counted is that of the d2.                       *)
C14_SizeBeforeCount ==
    LET t == dice_tree.roll
    IN  /\ (Ended /\ t.type = "ast.Dice" /\ t.size \in BadSizes /\ t.num >= 1)
              => pc = "RollValueError" /\ rolls = 0 /\ tape = <<>>
        /\ (Ended /\ t.type = "ast.Dice" /\ t.num = 0)
              => /\ pc = "returned" /\ rolls = 0 /\ tape = <<>>
                 /\ RollResult_total_exc = None /\ RollResult_total = 0
        /\ (Ended /\ t = ast_BinOp(ast_Dice(1, 2), "+", ast_Dice(1, 0)))
              => pc = "RollValueError" /\ rolls = 1 /\ Len(tape) = 1
        /\ pc = "RollValueError" => rolls = Len(tape)

\* one die more than the budget, of size 0, was refused for its size
C14_Witness ==
    /\ dice_tree # NoTree
    /\ dice_tree.roll = ast_Dice(max_rolls + 1, 0)
    /\ pc = "RollValueError"
    /\ rolls = 0

\* errors.RollError and its subclasses
RollError == {"RollError", "RollSyntaxError", "RollValueError", "TooManyRolls"}

\* the trees that the transformer builds from a string: the INTEGER of a die
\* size has no sign
Parsed == Inputs \ {Expr(ast_Dice(n, s)) : n \in 0..(max_rolls + 1), s \in BadSizes \ {0}}

(* C15: a roll of a tree built from a string either returns, and then the  *)
(* total (which result reads too) is read without an exception or with one *)
(* of the RollError family, or it ends with an exception of that family.   *)
(* The quotient of an integer literal above float_max and 1 is a           *)
(* counterexample: reading it raises OverflowError.                        *)
C15_OnlyRollErrors ==
    (Ended /\ dice_tree \in Parsed)
        => /\ pc \in {"returned"} \cup RollError
           /\ pc = "returned" => RollResult_total_exc \in {None} \cup RollError

\* CRIT for a 20, FAIL for a 1
CritOf(v) == IF v = 20 THEN "CRIT" ELSE IF v = 1 THEN "FAIL" ELSE "NONE"

\* the node at the end of the chain of first children is a Dice of size 20
\* with one kept die
OneD20Kept(h, n) ==
    /\ h[n].type = "Dice"
    /\ h[n].size = 20
    /\ Cardinality({i \in 1..Len(h[n].values) : h[h[n].values[i]].kept}) = 1

(* C16: crit of a returned roll is CRIT iff the node at the end of the     *)
(* chain of first children is a Dice of size 20 with one kept die and      *)
(* total 20, FAIL iff it is one with total 1, and NONE otherwise; 2d20kh1  *)
(* is classified by the higher die and 2d20kl1 by the lower one; 2d20,     *)
(* 1 + 1d20 and the sizes other than 20 give NONE, and so does a dropped   *)
(* d20.                                                                    *)
C16_Crit ==
    pc = "returned" =>
        LET leaf == leftmost(heap, dice_expr)
            t == dice_tree.roll
        IN  /\ RollResult_crit = "CRIT" <=> OneD20Kept(heap, leaf) /\ total(heap, leaf) = 20
            /\ RollResult_crit = "FAIL" <=> OneD20Kept(heap, leaf) /\ total(heap, leaf) = 1
            /\ RollResult_crit \in {"NONE", "CRIT", "FAIL"}
            /\ t = ast_Dice(1, 20) => RollResult_crit = CritOf(tape[1] + 1)
            /\ t = Advantage =>
                  RollResult_crit = CritOf(IF tape[1] > tape[2] THEN tape[1] + 1 ELSE tape[2] + 1)
            /\ t = Disadvantage => RollResult_crit = CritOf(Min(tape[1], tape[2]) + 1)
            /\ t = D20OrFive => RollResult_crit = (IF tape[1] = 0 THEN "FAIL" ELSE "NONE")
            /\ (\/ t \in {ast_Dice(0, 20), ast_Dice(2, 20),
                           ast_BinOp(ast_Literal(1), "+", ast_Dice(1, 20))}
                \/ (t.type = "ast.Dice" /\ t.size # 20))
                  => RollResult_crit = "NONE"

\* 2d20kh1 showed a 1 and a 20
C16_Witness ==
    /\ pc = "returned"
    /\ dice_tree.roll = Advantage
    /\ tape = <<0, 19>>
    /\ RollResult_crit = "CRIT"

KeepOne(advtype) ==
    ast_SetOperator("k", <<ast_SetSelector(IF advtype = AdvType_ADV THEN "h" ELSE "l", 1)>>)

RECURSIVE FirstLeaf(_)
\* the leaf at the end of the chain of first children of the tree t
FirstLeaf(t) ==
    CASE t.type = "ast.Expression" -> FirstLeaf(t.roll)
      [] t.type = "ast.BinOp" -> FirstLeaf(t.left)
      [] t.type = "ast.NumberSet" /\ t.values # <<>> -> FirstLeaf(t.values[1])
      [] t.type \in {"ast.Literal", "ast.Dice", "ast.NumberSet"} -> t
      [] OTHER -> FirstLeaf(t.value)

RECURSIVE AtAdvantage(_, _)
\* the tree t with its first leaf 1d20 made 2d20 in an OperatedDice that keeps
\* one die before it does what it did
AtAdvantage(t, advtype) ==
    CASE t.type = "ast.Dice" ->
            [type |-> "ast.OperatedDice", value |-> [t EXCEPT !.num = 2],
             operations |-> <<KeepOne(advtype)>>]
      [] t.type = "ast.OperatedDice" /\ t.value.type = "ast.Dice" ->
            [t EXCEPT !.value.num = 2, !.operations = <<KeepOne(advtype)>> \o @]
      [] t.type = "ast.Expression" -> [t EXCEPT !.roll = AtAdvantage(@, advtype)]
      [] t.type = "ast.BinOp" -> [t EXCEPT !.left = AtAdvantage(@, advtype)]
      [] t.type = "ast.NumberSet" -> [t EXCEPT !.values[1] = AtAdvantage(@, advtype)]
      [] OTHER -> [t EXCEPT !.value = AtAdvantage(@, advtype)]

RECURSIVE FirstChildren(_, _)
\* the nodes on the chain of first children from the node n on
FirstChildren(h, n) ==
    IF ast_children(h, n) = <<>> THEN {n}
    ELSE {n} \cup FirstChildren(h, ast_children(h, n)[1])

(* C18: ast_adv_copy changes no object of its input, whatever the tree and *)
(* the advtype and however it ends: the cached tree has the structure and  *)
(* the string it was parsed with after every call of a sequence; the root  *)
(* of the returned tree and, with ADV or DIS, the nodes on its chain of    *)
(* first children are new objects and every other child is an object of    *)
(* the input.                                                              *)
C18_InputNotMutated ==
    ast.call = "ast_adv_copy" =>
        /\ \A i \in 1..Len(ast.before) : ast.heap[i] = ast.before[i]
        /\ ast_tree(ast.heap, ast.cached) = ast.text
        /\ ast_str(ast.heap, ast.cached) = ast_str(ast_load(Objects(<<>>), ast.text).heap,
                                                   ast.cached)
        /\ ast.status = "ok" =>
              LET copied == IF ast.advtype = AdvType_NONE THEN {ast.val}
                            ELSE FirstChildren(ast.heap, ast.val)
              IN  /\ \A n \in copied : n > Len(ast.before)
                  /\ \A n \in copied :
                        \A j \in 1..Len(ast_children(ast.heap, n)) :
                            LET c == ast_children(ast.heap, n)[j]
                            IN  c \notin copied => c <= Len(ast.before)

\* 1d20ro1 was rolled at advantage and then at disadvantage: the second copy
\* is 2d20kl1ro1 and the cached tree is still 1d20ro1
C18_Witness ==
    /\ ast.call = "ast_adv_copy"
    /\ ast.count = 2
    /\ ast.text = Expr(D20Reroll)
    /\ ast.advtype = AdvType_DIS
    /\ ast_str(ast.heap, ast.val) = "2d20kl1ro1"
    /\ ast_str(ast.heap, ast.cached) = "1d20ro1"
    /\ \E n \in 1..Len(ast.before) :
          ast.heap[n].type = "ast.Expression" /\ ast_str(ast.heap, n) = "2d20kh1ro1"

RECURSIVE Nodes(_, _)
\* the nodes of the tree under the node n
Nodes(h, n) ==
    {n} \cup UNION {Nodes(h, ast_children(h, n)[j]) : j \in 1..Len(ast_children(h, n))}

\* the tree has a node with a list of operations
Operated(h, n) ==
    \E c \in Nodes(h, n) : h[c].type \in {"ast.OperatedSet", "ast.OperatedDice"}

Modified == pc = "returned" /\ ev # Returned

(* C20: total, result and crit are those of the tree as it is when they    *)
(* are read: once the caller has set expr.roll to the old roll + 4, total  *)
(* is the total at the return plus 4 and result is the old roll followed   *)
(* by + 4 and the new total, and with 4 + the old roll crit is NONE, the   *)
(* first leaf being a Literal; for 1 + 2 + 3 total goes from 6 to 10 and   *)
(* result (of the SimpleStringifier) from 1 + 2 + 3 = 6 to                 *)
(* 1 + 2 + 3 + 4 = 10.                                                     *)
C20_ReadsCurrentTree ==
    LET old == Returned.heap[Returned.val].roll
        now == heap[heap[dice_expr].roll]
        str_old == _stringify(Returned.heap, old)
        at_return == total(Returned.heap, Returned.val)
    IN  /\ (pc = "returned" /\ ~ Modified /\ dice_tree = Expr(OnePlusTwoPlusThree))
              => RollResult_total = 6 /\ RollResult_result = "1 + 2 + 3 = 6"
        /\ Modified =>
              /\ RollResult_total = at_return + 4
              /\ now.left = old =>
                    /\ RollResult_result =
                          str_old \o " + 4 = " \o ToString(at_return + 4)
                    /\ RollResult_crit = crit(Returned.heap, Returned.val)
              /\ now.right = old =>
                    /\ RollResult_result =
                          "4 + " \o str_old \o " = " \o ToString(at_return + 4)
                    /\ RollResult_crit = "NONE"
              /\ (dice_tree = Expr(OnePlusTwoPlusThree) /\ now.left = old)
                    => RollResult_total = 10 /\ RollResult_result = "1 + 2 + 3 + 4 = 10"

\* 1d20 showed 20, a CRIT, and the caller has put 4 + before it
C20_Witness ==
    /\ Modified
    /\ dice_tree = Expr(ast_Dice(1, 20))
    /\ tape = <<19>>
    /\ crit(Returned.heap, Returned.val) = "CRIT"
    /\ RollResult_crit = "NONE"
    /\ RollResult_total = 24
    /\ RollResult_result = "4 + 1d20 (20) = 24"

(* the nodes reachable from n through children, n included *)
RECURSIVE Reachable(_, _)
Reachable(h, n) ==
    {n} \cup UNION {Reachable(h, children(h, n)[i]) : i \in 1..Len(children(h, n))}

\* node n carries an annotation
Tagged(h, n) == h[n].annotation \notin {None, ""}

\* m is a Literal made by the call, of value v and annotation a
FreshLiteral(m, v, a) ==
    /\ m > Len(ast.before)
    /\ heap[m].type = "Literal"
    /\ heap[m].values = <<v>>
    /\ heap[m].kept
    /\ heap[m].annotation = a

RECURSIVE Collapsed(_, _, _)
\* m is what the subtree n of the tree h, whose annotations were bubbled up,
\* has become
Collapsed(h, n, m) ==
    IF Tagged(h, n) THEN FreshLiteral(m, total(h, n), h[n].annotation)
    ELSE IF \A d \in Reachable(h, n) : ~Tagged(h, d)
    THEN FreshLiteral(m, total(h, n), None)
    ELSE /\ m = n
         /\ Len(children(heap, m)) = Len(children(h, n))
         /\ \A i \in 1..Len(children(h, n)) :
                Collapsed(h, children(h, n)[i], children(heap, m)[i])

(* C21: after simplify_expr the total of the expression is what it was,    *)
(* no Dice and no Die is reachable from it through children, every         *)
(* annotated subtree is one Literal of its total and annotation and every  *)
(* unannotated sibling of a replaced branch (the whole roll when nothing   *)
(* is annotated) is one Literal of its total; the three documented trees   *)
(* render as documented.                                                   *)
C21_SimplifyExpr ==
    ast.call = "simplify_expr" =>
        LET bubbled == simplify_expr_annotations(ast.before, ast.before[dice_expr].roll,
                                                 ast.ambig_inherit)
        IN  /\ RollResult_total = total(ast.before, dice_expr)
            /\ \A n \in Reachable(heap, dice_expr) : heap[n].type \notin {"Dice", "Die"}
            /\ Collapsed(bubbled, bubbled[dice_expr].roll, heap[dice_expr].roll)
            /\ dice_tree = Expr(TwoTagsInFour) /\ ast.ambig_inherit = None
                => RollResult_result = "3 [a] + 3 [b] + 4 = 10"
            /\ dice_tree = Expr(OneTagInThree) => RollResult_result = "6 [a] = 6"
            /\ dice_tree = Expr(NoTagInFour) => RollResult_result = "10 = 10"

\* 1d2 [a] + 1 + 3 [b]: the die and the 1 became one Literal, the 3 another
C21_Witness ==
    /\ ast.call = "simplify_expr"
    /\ dice_tree = Expr(ast_BinOp(ast_BinOp(Annotated(ast_Dice(1, MaxSize), "[a]"), "+",
                                            ast_Literal(1)),
                                  "+", Annotated(ast_Literal(3), "[b]")))
    /\ \E n \in 1..Len(ast.before) : ast.before[n].type = "Die"
    /\ RollResult_result \in {"2 [a] + 3 [b] = 5", "3 [a] + 3 [b] = 6"}

\* the annotations found in the subtree of n
Annotations(h, n) == {h[d].annotation : d \in Reachable(h, n)} \ {None}

\* (2 [a]) [a]
TaggedTwice == Annotated(ast_Parenthetical(Annotated(ast_Literal(2), "[a]")), "[a]")

(* C24: simplify_expr_annotations, on whatever node it is called, gives    *)
(* the node the annotation of its subtree and clears the annotations of    *)
(* its children when its children's annotations and its own are one        *)
(* annotation, its own being the same as its children's included: (1 [a])  *)
(* becomes (1) [a], 1 [a] + 2 + 3 [a] + 4 becomes 1 + 2 + 3 + 4 [a] and    *)
(* (2 [a]) [a] becomes (2) [a].                                            *)
C24_HoistSingleAnnotation ==
    ast.call = "simplify_expr_annotations" =>
        /\ \A n \in Reachable(ast.before, ast.before[dice_expr].roll) :
              \A a \in Annotations(ast.before, n) :
                 Annotations(ast.before, n) = {a} =>
                    LET after == simplify_expr_annotations(ast.before, n, ast.ambig_inherit)
                    IN  /\ after[n].annotation = a
                        /\ \A i \in 1..Len(children(after, n)) :
                              after[children(after, n)[i]].annotation = None
        /\ dice_tree = Expr(ast_Parenthetical(Annotated(ast_Literal(2), "[a]")))
              => RollResult_result = "(2) [a] = 2"
        /\ dice_tree = Expr(OneTagInFour) => RollResult_result = "1 + 2 + 3 + 4 [a] = 10"
        /\ dice_tree = Expr(TaggedTwice) => RollResult_result = "(2) [a] = 2"

\* str(tree) of a tree the parser built
str(tree) == Then(ast_load(Objects(<<>>), tree), LAMBDA A : ast_str(A.heap, A.val))

(* C22: the string form of a tree that parse(text) built parses, on a      *)
(* fresh Roller, to a tree with the same string form; so do k1k2k3, whose  *)
(* operators were merged, and the one-element set (1,).                    *)
C22_RoundTrip ==
    ast.call = "Roller.parse" /\ ~ast.allow_comments /\ ast.status = "ok" =>
        LET again == Roller_parse(<<>>, str(ast.val), FALSE)
        IN  /\ again.status = "ok"
            /\ str(again.val) = str(ast.val)

(* C25: parse(text, allow_comments=True) gives the tree of the first       *)
(* commented_expr parse when it succeeds; when it fails right after a '*'  *)
(* and the text before that '*' parses, the tree of that text with the     *)
(* '*' and the rest of the input as its comment, so that the two together  *)
(* are the input; in every other case the syntax error of the first        *)
(* parse, at its position.                                                 *)
C25_CommentRecovery ==
    ast.call = "Roller.parse" /\ ast.allow_comments =>
        LET first == parser_parse(ast.text, "commented_expr")
            after_star == first.pos >= 2 /\ char(ast.text, first.pos - 1) = "*"
            prefix == SubSeq(ast.text, 1, first.pos - 2)
            second == parser_parse(prefix, "commented_expr")
        IN  /\ first.ok => ast.status = "ok" /\ ast.val = first.val
            /\ ~first.ok /\ after_star /\ second.ok =>
                    /\ ast.status = "ok"
                    /\ ast.val.roll = second.val.roll
                    /\ ast.val.comment = SubSeq(ast.text, first.pos - 1, Len(ast.text))
                    /\ prefix \o ast.val.comment = ast.text
            /\ ~first.ok /\ ~(after_star /\ second.ok) =>
                    ast.status = "RollSyntaxError" /\ ast.pos = first.pos
            /\ ast.text = "1d20 **bold**" => ast.status = "ok" /\ ast.val.comment = "**bold**"

(* C26: a parse(text) call on a Roller that has parsed other texts ends    *)
(* as it does on a fresh Roller, with a tree of the same string form or    *)
(* with a syntax error; the keys of the cache have no spaces, the cache    *)
(* never holds more than cache_maxsize entries, a failed parse leaves it   *)
(* as it was and so does every parse(text, allow_comments=True).           *)
C26_CacheTransparent ==
    ast.call = "Roller.parse" =>
        /\ ~ast.allow_comments =>
                LET fresh == Roller_parse(<<>>, ast.text, FALSE)
                IN  /\ ast.status = fresh.status
                    /\ ast.status = "ok" => str(ast.val) = str(fresh.val)
        /\ \A i \in 1..Len(ast.cache) : clean(ast.cache[i].key) = ast.cache[i].key
        /\ ~ast.allow_comments /\ ast.status = "ok" =>
                \E i \in 1..Len(ast.cache) : ast.cache[i].key = clean(ast.text)
        /\ Len(ast.cache) <= cache_maxsize
        /\ ast.status # "ok" => ast.cache = ast.before
        /\ ast.allow_comments => ast.cache = ast.before

\* the operator of a hand-built tree and the node it is applied to
BuiltOp == dice_tree.roll.operations[1].op
BuiltTarget == dice_tree.roll.value

(* C23: a roll() of a hand-built tree that applies a dice-only operator    *)
(* (rr, ro, ra, e, mi, ma) to a node that is not a Dice, or an operator    *)
(* whose symbol is not one of k, p, rr, ro, ra, e, mi, ma, ends with       *)
(* RollValueError: it does not return and it raises nothing else.          *)
C23_InvalidOperators ==
    (Ended /\ dice_tree \in BuiltInputs) =>
        /\ (BuiltOp \in DiceOnly /\ BuiltTarget.type # "ast.Dice") => pc = "RollValueError"
        /\ BuiltOp \in UnknownOps => pc = "RollValueError"

\* thread t drew more dice than max_rolls and TooManyRolls was not raised
OverBudget(t) == threads[t].drawn > max_rolls /\ threads[t].pc # "TooManyRolls"

\* TooManyRolls was raised in thread t before it drew max_rolls dice itself
UnderBudget(t) == threads[t].pc = "TooManyRolls" /\ threads[t].drawn < max_rolls

(* C27: a roll() call during which no other thread was inside roll() on    *)
(* the same Roller (one Roller per thread, or calls one after the other)   *)
(* never draws more than max_rolls dice and raises TooManyRolls only       *)
(* after max_rolls draws of its own; two calls that interleave on one      *)
(* Roller reach both states.                                               *)
C27_NotThreadSafe ==
    \A t \in Threads :
        ~threads[t].overlap => ~OverBudget(t) /\ ~UnderBudget(t)

\* on one Roller, a call that drew more than max_rolls dice and returned
\* and a call that raised TooManyRolls after fewer than max_rolls draws
C27_Witness ==
    \E t, u \in Threads :
        /\ threads[t].roller = threads[u].roller
        /\ threads[t].overlap /\ threads[u].overlap
        /\ threads[t].pc = "returned" /\ OverBudget(t)
        /\ UnderBudget(u)

\* node n and, when it is a Die, every Literal it holds are after the
\* operator of log entry e as they were before it
Untouched(e, n) ==
    /\ e.after[n] = e.before[n]
    /\ e.before[n].type = "Die" =>
            \A l \in Range(e.before[n].values) : e.after[l] = e.before[l]

(* C28: a node whose kept flag is false keeps it false: through every      *)
(* draw of the call and through every operator applied.  An operator       *)
(* selects among the kept elements of its target only; an element that was *)
(* dropped when the operator began is left as it was, with the Literals it *)
(* holds (not rerolled, exploded or clamped); the kept elements after it   *)
(* that were present before it were kept before it, and elements are added *)
(* by ra and e only.                                                       *)
C28_KeptMonotone ==
    /\ [][\A n \in 1..Len(heap) :
            n <= Len(heap') /\ (~heap[n].kept => ~heap'[n].kept)]_vars
    /\ [](\A i \in 1..Len(oplog) :
            LET e == oplog[i]
                elements == Range(set(e.before, e.target))
            IN  /\ \A n \in 1..Len(e.before) : ~e.before[n].kept => ~e.after[n].kept
                /\ \A n \in 1..Len(e.before) : ~e.before[n].kept => ~heap[n].kept
                /\ select_exc(e.before, e.self, e.target) = None =>
                        select(e.before, e.self, e.target, NoLimit)
                            \subseteq {n \in elements : e.before[n].kept}
                /\ \A n \in elements : ~e.before[n].kept => Untouched(e, n)
                /\ Range(keptset(e.after, e.target)) \cap elements
                        \subseteq Range(keptset(e.before, e.target))
                /\ Range(set(e.after, e.target)) # elements => e.self.op \in {"ra", "e"})

\* an rr, ro, ra, e, mi or ma changed a target that held a dropped die
C28_Witness ==
    /\ pc = "returned"
    /\ \E i \in 1..Len(oplog) :
            /\ oplog[i].self.op \in DiceOnly
            /\ \E n \in Range(set(oplog[i].before, oplog[i].target)) :
                    ~oplog[i].before[n].kept
            /\ oplog[i].after # oplog[i].before

\* sequence a is the beginning of sequence b
IsPrefix(a, b) == Len(a) <= Len(b) /\ SubSeq(b, 1, Len(a)) = a

\* every Die of heap h holds a last Literal that is kept, after Literals
\* that are dropped, and its number is the latest value of the last one
DieInvariant(h) ==
    \A d \in 1..Len(h) :
        h[d].type = "Die" =>
            /\ h[d].values # <<>>
            /\ \A i \in 1..Len(h[d].values) :
                    /\ h[h[d].values[i]].type = "Literal"
                    /\ h[h[d].values[i]].kept <=> i = Len(h[d].values)
            /\ number(h, d) = Last(h[Last(h[d].values)].values)

(* C29: after every operator that was applied, and when roll() returns,    *)
(* every Die holds at least one Literal, the last one kept and the ones    *)
(* before it dropped, and Die.number is the latest value of the last       *)
(* Literal; when roll() returns a Die holds one Literal more than the      *)
(* times reroll() was called on it.  The values of a Literal are never     *)
(* empty and only grow at the end, from draw to draw and through every     *)
(* operator.                                                               *)
C29_DieInvariant ==
    /\ [][\A n \in 1..Len(heap) :
            heap[n].type = "Literal" =>
                heap'[n].type = "Literal" /\ IsPrefix(heap[n].values, heap'[n].values)]_vars
    /\ [](/\ \A i \in 1..Len(oplog) :
               /\ DieInvariant(oplog[i].after)
               /\ \A n \in 1..Len(oplog[i].before) :
                       oplog[i].before[n].type = "Literal" =>
                           IsPrefix(oplog[i].before[n].values, oplog[i].after[n].values)
          /\ \A n \in 1..Len(heap) : heap[n].type = "Literal" => heap[n].values # <<>>
          /\ pc = "returned" =>
               /\ DieInvariant(heap)
               /\ \A d \in 1..Len(heap) :
                       heap[d].type = "Die" =>
                           Len(heap[d].values)
                               = 1 + Len(SelectSeq(ev.rerolls, LAMBDA x : x = d)))

\* a die that was rerolled and then clamped, in a roll() that returned
C29_Witness ==
    /\ pc = "returned"
    /\ \E d \in 1..Len(heap) :
            /\ heap[d].type = "Die"
            /\ Len(heap[d].values) >= 2
            /\ Len(heap[Last(heap[d].values)].values) >= 2

\* the division nodes built in this call whose number cannot be read
FailingDivisions ==
    {n \in DivisionNodes(heap) : number_exc(heap, n) = "RollValueError"}

\* the tree applies no set operator
NoOperator(tree) ==
    Then(ast_load(Objects(<<>>), tree), LAMBDA A : ~Operated(A.heap, A.val))

(* C30: roll() of arithmetic that applies no set operator returns whatever *)
(* the operands are, and the division by zero in it is met when the total  *)
(* is read (result reads it too), at every read; roll() raises the         *)
(* RollValueError itself exactly when an operator selects among the        *)
(* elements of a set and one of them holds a division by zero.  10 / 0     *)
(* returns and its total is read with RollValueError; (10 / 0, 1)kh1       *)
(* raises RollValueError in roll().                                        *)
C30_LazyArithmetic ==
    LET t == dice_tree.roll
    IN  (Ended /\ t \in Divisions \cup DivisionsWithin) =>
            /\ pc \in {"returned", "RollValueError"}
            /\ NoOperator(t) =>
                    /\ pc = "returned"
                    /\ RollResult_total_exc
                            = IF FailingDivisions # {} THEN "RollValueError" ELSE None
            /\ t \in Divisions => pc = "returned"
            /\ (t \in DivisionsWithin /\ t.type = "ast.OperatedSet") =>
                    /\ pc = "RollValueError" <=> FailingDivisions # {}
                    /\ pc = "RollValueError" => oplog = <<>>
                    /\ pc = "returned" => RollResult_total_exc = None
            /\ t = ast_BinOp(ast_Literal(10), "/", ast_Literal(0)) =>
                    pc = "returned" /\ RollResult_total_exc = "RollValueError"
            /\ t = ast_OperatedSet(
                        ast_NumberSet(<<ast_BinOp(ast_Literal(10), "/", ast_Literal(0)),
                                        ast_Literal(1)>>),
                        <<ast_SetOperator("k", <<ast_SetSelector("h", 1)>>)>>) =>
                    pc = "RollValueError"

\* 1 + 10 // 0 was rolled: roll() returned and the total cannot be read
C30_Witness ==
    /\ pc = "returned"
    /\ dice_tree.roll
            = ast_BinOp(ast_Literal(1), "+", ast_BinOp(ast_Literal(10), "//", ast_Literal(0)))
    /\ FailingDivisions # {}
    /\ RollResult_total_exc = "RollValueError"

=============================================================================
